---- MODULE Spec2Model ----
(***************************************************************************)
(* Vision ingest service: the session registry and RPC surface             *)
(* (vision_service.cpp) on top of the per-session capture engine           *)
(* (camera_manager.cpp).                                                   *)
(*                                                                         *)
(* Handler threads run the RPC methods; each admitted session owns one     *)
(* CameraManager whose capture worker runs CaptureLoop concurrently.       *)
(* CameraManager objects live in `managers`, keyed by the camera_id of the *)
(* StreamState that owns them (the unique_ptr link).                       *)
(***************************************************************************)
EXTENDS Integers, Sequences, FiniteSets, TLC

VARIABLES
    active_streams,         \* VisionServiceImpl::active_streams_ : camera_id -> StreamState
    managers,               \* the live CameraManager objects, by owning camera_id
    streams_mutex,          \* VisionServiceImpl::streams_mutex_ : "free" or the owning thread
    total_streams_started,  \* VisionServiceImpl::total_streams_started_
    pc,                     \* position of each handler thread
    req,                    \* the request a handler thread is serving
    last,                   \* the last completed call: request, RPC status and response body
    terminated,             \* std::terminate was called (a joinable std::thread destroyed)
    total_frames_processed, \* VisionServiceImpl::total_frames_processed_
    frame_stream,           \* the ProcessFrames streams, by handler thread
    processor,              \* a FrameProcessor object
    callback_slot,          \* CameraManager::frame_callback_ under callback_mutex_
    detector,               \* a BasicMotionDetector object
    generator               \* CaptureTestFrame's static pattern rotation and its sessions

\* the state of the components that are modelled on their own
component_vars == <<callback_slot, detector, generator>>

\* the state outside the registry and its engines: the ProcessFrames RPC, the
\* FrameProcessor and the components modelled on their own
pipeline_vars == <<total_frames_processed, frame_stream, processor, component_vars>>

vars == <<active_streams, managers, streams_mutex, total_streams_started,
          pc, req, last, terminated, total_frames_processed, frame_stream,
          processor, callback_slot, detector, generator>>

----------------------------------------------------------------------------
(* Bounds of the model *)

\* stats.frames_captured is counted up to this value
MaxFrames == 1
\* total_streams_started_ grows by at most this many admissions in a run
MaxStarts == 3
\* stats.reconnect_count is counted up to this value
MaxReconnects == 2
\* a frame processor holds at most this many detectors
MaxDetectors == 2
\* a frame processor's total_frames_processed_ is counted up to this value
MaxProcessed == 2
\* a ProcessFrames stream carries at most this many requests
MaxRequests == 2

(* Program constants *)

MAX_CONCURRENT_STREAMS == 10
DEFAULT_MAX_DETECTIONS == 10

STATUS_SUCCESS == "success"
STATUS_ERROR == "error"
STATUS_STARTING == "starting"
STATUS_ACTIVE == "active"
STATUS_STOPPING == "stopping"
STATUS_STOPPED == "stopped"

HEALTH_HEALTHY == "healthy"
HEALTH_DEGRADED == "degraded"

SUPPORTED_VIDEO_FORMATS == {".mp4", ".avi", ".mov", ".mkv", ".wmv", ".flv", ".webm"}
RTSP_PREFIXES == {"rtsp://", "rtmp://", "rtp://"}
HTTP_PREFIXES == {"http://", "https://"}
WEBCAM_PATTERNS == {"/dev/video", "/dev/v4l/by-id/"}

\* CameraConfig(): the default configuration StartStream initializes with
CameraConfig ==
    [width |-> 640, height |-> 480, fps |-> 15, format |-> "bgr",
     auto_reconnect |-> TRUE, reconnect_delay_ms |-> 5000,
     max_reconnect_attempts |-> 3, frame_buffer_size |-> 30]

(* Inputs *)

Threads == {"t1", "t2"}
CameraIds == {"", "cam1", "cam2"}
Urls == {"", "test://pattern", "http://host/mjpeg", "rtsp://host/live", "not-a-url"}
\* the epoch-millisecond values the system clock can show
Clock == {1, 2}
\* the paths that exist on disk (std::filesystem::exists)
ExistingFiles == {"/srv/clip"}
\* what one read of a decoder backend can yield
BackendFrames == {"frame", "empty", "invalid"}

----------------------------------------------------------------------------
(* URL classification *)

\* url.find(p) == 0
StartsWith(s, p) == Len(s) >= Len(p) /\ SubSeq(s, 1, Len(p)) = p

\* url.compare(url.size() - ext.size(), ext.size(), ext) == 0
EndsWith(s, e) == Len(s) >= Len(e) /\ SubSeq(s, Len(s) - Len(e) + 1, Len(s)) = e

\* mutant: the video extension is looked at before the prefixes
DetectCameraType_ExtensionFirst(url) ==
    IF url = "" THEN "UNKNOWN"
    ELSE IF \E e \in SUPPORTED_VIDEO_FORMATS : EndsWith(url, e) THEN "FILE_VIDEO"
    ELSE IF StartsWith(url, "test://") THEN "TEST_PATTERN"
    ELSE IF \E p \in RTSP_PREFIXES : StartsWith(url, p) THEN "RTSP_STREAM"
    ELSE IF \E p \in HTTP_PREFIXES : StartsWith(url, p) THEN "HTTP_STREAM"
    ELSE IF \E p \in WEBCAM_PATTERNS : StartsWith(url, p) THEN "WEBCAM"
    ELSE IF url \in ExistingFiles THEN "FILE_VIDEO"
    ELSE "UNKNOWN"

DetectCameraType(url) ==
    IF url = "" THEN "UNKNOWN"
    ELSE IF url = "test://pattern" \/ StartsWith(url, "test://") THEN "TEST_PATTERN"
    ELSE IF \E p \in RTSP_PREFIXES : StartsWith(url, p) THEN "RTSP_STREAM"
    ELSE IF \E p \in HTTP_PREFIXES : StartsWith(url, p) THEN "HTTP_STREAM"
    ELSE IF \E p \in WEBCAM_PATTERNS : StartsWith(url, p) THEN "WEBCAM"
    ELSE IF \E e \in SUPPORTED_VIDEO_FORMATS : EndsWith(url, e) THEN "FILE_VIDEO"
    ELSE IF url \in ExistingFiles THEN "FILE_VIDEO"
    ELSE "UNKNOWN"

\* mutant: only the emptiness of the URL is checked
IsValidCameraUrl_NonEmptyOnly(url) == url # ""

IsValidCameraUrl(url) == url # "" /\ DetectCameraType(url) # "UNKNOWN"

----------------------------------------------------------------------------
(* The capture engine, as operators on a CameraManager record.             *)
(* capture_thread is "null" (no std::thread object), or the position of    *)
(* the worker the object stands for: "loop" (in CaptureLoop), "backoff"    *)
(* (sleeping in AttemptReconnect) or "exited" (returned, still joinable).  *)
(* successful_reconnects is a history field: how many times AttemptReconnect *)
(* took its success branch.                                                *)

NewCameraManager(url) ==
    [camera_url |-> url,
     camera_type |-> DetectCameraType(url),
     config |-> CameraConfig,
     state |-> "UNINITIALIZED",
     should_stop |-> FALSE,
     is_capturing |-> FALSE,
     reconnect_attempts |-> 0,
     stats |-> [frames_captured |-> 0, bytes_received |-> 0, reconnect_count |-> 0],
     last_error |-> "",
     frame_callback |-> FALSE,
     capture_thread |-> "null",
     successful_reconnects |-> 0]

\* mutant: the frame rate is not checked
ConfigRejected_NoFpsCheck(config) ==
    \/ config.width <= 0
    \/ config.height <= 0
    \/ config.width > (2147483647 \div config.height)

\* the width/height/fps and 32-bit product check of Initialize
ConfigRejected(config) ==
    \/ config.width <= 0
    \/ config.height <= 0
    \/ config.fps <= 0
    \/ config.width > (2147483647 \div config.height)

\* mutant: the default case of the switch reports success
BackendInitializes_DefaultOk(type, opens) ==
    CASE type = "TEST_PATTERN" -> TRUE
      [] type \in {"FILE_VIDEO", "WEBCAM", "RTSP_STREAM"} -> opens
      [] OTHER -> TRUE

\* whether the type-specific backend initializes; `opens` is whether the
\* decoder library is built in and opens the source
BackendInitializes(type, opens) ==
    CASE type = "TEST_PATTERN" -> TRUE
      [] type \in {"FILE_VIDEO", "WEBCAM", "RTSP_STREAM"} -> opens
      [] OTHER -> FALSE

BackendError(cm) ==
    CASE cm.camera_type = "FILE_VIDEO" -> "Failed to open video file"
      [] cm.camera_type = "WEBCAM" -> "Failed to open webcam"
      [] cm.camera_type = "RTSP_STREAM" -> "Failed to open RTSP stream"
      [] OTHER -> "Unsupported camera type"

\* Initialize(config) on an engine in state UNINITIALIZED: [ok, cm]
Initialize(cm, config, opens) ==
    IF ConfigRejected(config)
    THEN [ok |-> FALSE,
          cm |-> [cm EXCEPT !.last_error = "Invalid configuration parameters",
                            !.state = "ERROR"]]
    ELSE IF BackendInitializes(cm.camera_type, opens)
    THEN [ok |-> TRUE, cm |-> [cm EXCEPT !.config = config, !.state = "READY"]]
    ELSE [ok |-> FALSE,
          cm |-> [cm EXCEPT !.config = config,
                            !.last_error = BackendError(cm),
                            !.state = "ERROR"]]

\* mutant: no thread is constructed
StartCaptureSpawn_NoThread(cm) == [cm EXCEPT !.should_stop = FALSE]

\* StartCapture up to the construction of the std::thread
StartCaptureSpawn(cm) ==
    [cm EXCEPT !.should_stop = FALSE, !.capture_thread = "loop"]

\* StartCapture after the thread was constructed
StartCaptureMark(cm) ==
    [cm EXCEPT !.is_capturing = TRUE, !.state = "CAPTURING"]

\* mutant: the flag is cleared without joining the thread
StopCaptureJoined_NotJoined(cm) ==
    [cm EXCEPT !.is_capturing = FALSE]

\* mutant: the state is left as it is after the join
StopCaptureJoined_KeepsState(cm) ==
    [cm EXCEPT !.capture_thread = "null", !.is_capturing = FALSE]

\* StopCapture from its join on: reset the thread, clear the flag, CAPTURING -> READY
StopCaptureJoined(cm) ==
    [cm EXCEPT !.capture_thread = "null",
               !.is_capturing = FALSE,
               !.state = IF cm.state = "CAPTURING" THEN "READY" ELSE cm.state]

\* ~CameraManager runs Cleanup, whose StopCapture returns at once when
\* is_capturing_ is false; then the members are destroyed, and a std::thread
\* that is still joinable calls std::terminate
DestructorTerminates(cm) == ~cm.is_capturing /\ cm.capture_thread # "null"

\* mutant: StopCapture does not wait for the worker
JoinReturns_NoWait(cm) == TRUE

\* the join of StopCapture returns once the worker has left CaptureLoop
\* (it is skipped when there is no thread object)
JoinReturns(cm) == cm.capture_thread \in {"exited", "null"}

ShouldAttemptReconnect(cm) ==
    cm.config.auto_reconnect /\ cm.reconnect_attempts < cm.config.max_reconnect_attempts

\* CaptureFrame's success flag for one read of the backend
CaptureSucceeds(cm, got) ==
    CASE cm.camera_type = "TEST_PATTERN" -> TRUE
      [] cm.camera_type \in {"FILE_VIDEO", "WEBCAM", "RTSP_STREAM"} -> got # "empty"
      [] OTHER -> FALSE

\* ValidateFrame on the frame read; the test pattern generator's frames are
\* width x height x 3 bytes and pass
FrameValid(cm, got) ==
    IF cm.camera_type = "TEST_PATTERN" THEN TRUE ELSE got = "frame"

FrameBytes(cm) == cm.config.width * cm.config.height * 3

UpdateStats(cm) ==
    [cm EXCEPT !.stats.frames_captured = @ + 1,
               !.stats.bytes_received = @ + FrameBytes(cm)]

\* mutant: the worker stays in its loop
LoopExit_StaysInLoop(cm) == cm

\* the worker leaves CaptureLoop
LoopExit(cm) == [cm EXCEPT !.is_capturing = FALSE, !.capture_thread = "exited"]

\* AttemptReconnect up to its sleep
AttemptReconnectBegin(cm) ==
    IF cm.reconnect_attempts >= cm.config.max_reconnect_attempts
    THEN [cm EXCEPT !.last_error = "Maximum reconnect attempts exceeded",
                    !.state = "ERROR",
                    !.capture_thread = "loop"]
    ELSE [cm EXCEPT !.state = "RECONNECTING",
                    !.reconnect_attempts = @ + 1,
                    !.stats.reconnect_count = @ + 1,
                    !.capture_thread = "backoff"]

\* mutant: the reinitialization reports failure
InitializeCapture_Fails(cm) == [ok |-> FALSE, cm |-> [cm EXCEPT !.reconnect_attempts = 0]]

\* InitializeCapture: resets the attempt counter and reports success
InitializeCapture(cm) == [ok |-> TRUE, cm |-> [cm EXCEPT !.reconnect_attempts = 0]]

\* AttemptReconnect after its sleep, then CaptureLoop's pacing sleep
AttemptReconnectEnd(cm) ==
    LET r == InitializeCapture(cm) IN
    IF r.ok
    THEN [r.cm EXCEPT !.state = "CAPTURING", !.reconnect_attempts = 0,
                      !.capture_thread = "loop",
                      !.successful_reconnects = @ + 1]
    ELSE IF ShouldAttemptReconnect(r.cm)
    THEN AttemptReconnectBegin(r.cm)
    ELSE [r.cm EXCEPT !.state = "ERROR", !.capture_thread = "loop"]

\* the read of the backend ends in an exception
BackendThrows(cm, got) == got = "throws"

\* HandleCaptureError: CaptureLoop's catch of an exception, inside the loop
HandleCaptureError(cm) ==
    [cm EXCEPT !.last_error = "Capture exception",
               !.state = IF cm.config.auto_reconnect THEN "DISCONNECTED" ELSE "ERROR"]

\* mutant: an exception of the callback reaches CaptureLoop's catch
NotifyFrameAvailable_Propagates(cm, does) ==
    IF does = "throws" THEN HandleCaptureError(cm) ELSE cm

\* NotifyFrameAvailable on a callback that `does` something: whatever the
\* callback throws is caught and logged
NotifyFrameAvailable(cm, does) == cm

\* one iteration of CaptureLoop on a backend read `got`
CaptureLoopBody(cm, got) ==
    IF cm.should_stop THEN LoopExit(cm)
    ELSE IF BackendThrows(cm, got) THEN HandleCaptureError(cm)
    ELSE IF CaptureSucceeds(cm, got)
    THEN IF FrameValid(cm, got) THEN UpdateStats(cm) ELSE cm
    ELSE IF cm.config.auto_reconnect /\ ShouldAttemptReconnect(cm)
    THEN AttemptReconnectBegin(cm)
    ELSE LoopExit([cm EXCEPT !.last_error = "Capture failed and reconnect disabled",
                             !.state = "ERROR"])

\* the counters stay within the bounds of the model
WithinBounds(cm) ==
    /\ cm.stats.frames_captured <= MaxFrames
    /\ cm.stats.reconnect_count <= MaxReconnects

----------------------------------------------------------------------------
(* The capture worker *)

CaptureLoop(id, got) ==
    /\ ~terminated
    /\ id \in DOMAIN managers
    /\ managers[id].capture_thread = "loop"
    /\ LET cm == CaptureLoopBody(managers[id], got) IN
        /\ WithinBounds(cm)
        /\ managers' = [managers EXCEPT ![id] = cm]
    /\ UNCHANGED <<active_streams, streams_mutex, total_streams_started,
                   pc, req, last, terminated>>
    /\ UNCHANGED pipeline_vars

AttemptReconnect(id) ==
    /\ ~terminated
    /\ id \in DOMAIN managers
    /\ managers[id].capture_thread = "backoff"
    /\ LET cm == AttemptReconnectEnd(managers[id]) IN
        /\ WithinBounds(cm)
        /\ managers' = [managers EXCEPT ![id] = cm]
    /\ UNCHANGED <<active_streams, streams_mutex, total_streams_started,
                   pc, req, last, terminated>>
    /\ UNCHANGED pipeline_vars

----------------------------------------------------------------------------
(* The session registry and the RPC handlers *)

NoRequest == [op |-> "none", camera_id |-> "", camera_url |-> ""]

\* a completed call: the request, the grpc::Status and the response body
Reply(op, id, url, rpc, status, stream_id, frames, detections, count) ==
    [op |-> op, camera_id |-> id, camera_url |-> url,
     rpc |-> rpc, status |-> status, stream_id |-> stream_id,
     frames_processed |-> frames, detections_count |-> detections,
     active_streams |-> count]

\* mutant: the entry is not erased
EraseStream_Keeps(f, id) == f

\* active_streams_.erase(it); the owned CameraManager goes with its StreamState
EraseStream(f, id) == [k \in DOMAIN f \ {id} |-> f[k]]

\* active_streams_[camera_id] = std::move(stream_state)
InsertStream(f, id, v) == [k \in DOMAIN f \cup {id} |-> IF k = id THEN v ELSE f[k]]

\* mutant: the entry keeps the status its constructor gave it
NewStreamState_Starting(id, url) ==
    [camera_id |-> id, camera_url |-> url, status |-> "starting",
     frames_processed |-> 0, detections_count |-> 0]

\* StreamState(cam_id, cam_url), then status = STATUS_ACTIVE
NewStreamState(id, url) ==
    [camera_id |-> id, camera_url |-> url, status |-> STATUS_ACTIVE,
     frames_processed |-> 0, detections_count |-> 0]

ValidateStreamRequest(id, url) ==
    IF id = "" THEN "INVALID_ARGUMENT"
    ELSE IF url = "" THEN "INVALID_ARGUMENT"
    ELSE IF ~IsValidCameraUrl(url) THEN "INVALID_ARGUMENT"
    ELSE "OK"

ValidateStopRequest(id) == IF id = "" THEN "INVALID_ARGUMENT" ELSE "OK"

\* mutant: the lookup never finds the camera_id
StreamExists_NeverFound(id) == FALSE

\* active_streams_.find(camera_id) != active_streams_.end()
StreamExists(id) == id \in DOMAIN active_streams

\* mutant: the comparison with the limit is strict
LimitReached_Strict(count) == count > MAX_CONCURRENT_STREAMS

\* active_streams_.size() >= MAX_CONCURRENT_STREAMS
LimitReached(count) == count >= MAX_CONCURRENT_STREAMS

\* camera_id + "_" + std::to_string(timestamp)
GenerateStreamId(id, now) == id \o "_" \o ToString(now)

\* mutant: the load threshold is compared strictly
HealthStatus_Strict(streams, count) ==
    IF count * 10 > MAX_CONCURRENT_STREAMS * 9 THEN HEALTH_DEGRADED
    ELSE IF \E id \in DOMAIN streams : streams[id].status = "error" THEN HEALTH_DEGRADED
    ELSE HEALTH_HEALTHY

\* GetHealth's two downgrades; 0.9 * MAX_CONCURRENT_STREAMS in tenths
HealthStatus(streams, count) ==
    IF count * 10 >= MAX_CONCURRENT_STREAMS * 9 THEN HEALTH_DEGRADED
    ELSE IF \E id \in DOMAIN streams : streams[id].status = "error" THEN HEALTH_DEGRADED
    ELSE HEALTH_HEALTHY

\* StartStream up to the construction of the capture thread. `limit` is the
\* bound on admissions; whether a decoder backend opens the source (`opens`)
\* is the environment's choice.
StartStream(t, id, url, limit) ==
    /\ ~terminated
    /\ pc[t] = "idle"
    /\ IF ValidateStreamRequest(id, url) # "OK"
       THEN /\ last' = Reply("StartStream", id, url, ValidateStreamRequest(id, url),
                             "", "", 0, 0, 0)
            /\ UNCHANGED <<active_streams, managers, streams_mutex,
                           total_streams_started, pc, req, terminated>>
       ELSE /\ streams_mutex = "free"
            /\ IF StreamExists(id) \/ LimitReached(Cardinality(DOMAIN active_streams))
               THEN /\ last' = Reply("StartStream", id, url, "OK", STATUS_ERROR,
                                     "", 0, 0, 0)
                    /\ UNCHANGED <<active_streams, managers, streams_mutex,
                                   total_streams_started, pc, req, terminated>>
               ELSE \E opens \in BOOLEAN :
                    LET r == Initialize(NewCameraManager(url), CameraConfig, opens) IN
                    IF ~r.ok
                    THEN /\ terminated' = DestructorTerminates(r.cm)
                         /\ last' = Reply("StartStream", id, url, "OK", STATUS_ERROR,
                                          "", 0, 0, 0)
                         /\ UNCHANGED <<active_streams, managers, streams_mutex,
                                        total_streams_started, pc, req>>
                    ELSE /\ total_streams_started < limit
                         /\ managers' = InsertStream(managers, id, StartCaptureSpawn(r.cm))
                         /\ streams_mutex' = t
                         /\ pc' = [pc EXCEPT ![t] = "start_spawned"]
                         /\ req' = [req EXCEPT ![t] = [op |-> "StartStream",
                                                       camera_id |-> id,
                                                       camera_url |-> url]]
                         /\ UNCHANGED <<active_streams, total_streams_started,
                                        last, terminated>>
    /\ UNCHANGED pipeline_vars

\* StartStream from the return of the std::thread constructor on: the rest of
\* StartCapture, the insertion, the counter and the response
StartStreamInsert(t, now) ==
    /\ ~terminated
    /\ pc[t] = "start_spawned"
    /\ LET id == req[t].camera_id IN
        /\ managers' = [managers EXCEPT ![id] = StartCaptureMark(@)]
        /\ active_streams' = InsertStream(active_streams, id,
                                  NewStreamState(id, req[t].camera_url))
        /\ total_streams_started' = total_streams_started + 1
        /\ last' = Reply("StartStream", id, req[t].camera_url, "OK", STATUS_SUCCESS,
                         GenerateStreamId(id, now), 0, 0, 0)
    /\ streams_mutex' = "free"
    /\ pc' = [pc EXCEPT ![t] = "idle"]
    /\ req' = [req EXCEPT ![t] = NoRequest]
    /\ UNCHANGED terminated
    /\ UNCHANGED pipeline_vars

\* StopStream up to the join inside StopCapture
StopStream(t, id) ==
    /\ ~terminated
    /\ pc[t] = "idle"
    /\ IF ValidateStopRequest(id) # "OK"
       THEN /\ last' = Reply("StopStream", id, "", ValidateStopRequest(id),
                             "", "", 0, 0, 0)
            /\ UNCHANGED <<active_streams, managers, streams_mutex,
                           total_streams_started, pc, req, terminated>>
       ELSE /\ streams_mutex = "free"
            /\ IF ~StreamExists(id)
               THEN /\ last' = Reply("StopStream", id, "", "OK", STATUS_ERROR,
                                     "", 0, 0, 0)
                    /\ UNCHANGED <<active_streams, managers, streams_mutex,
                                   total_streams_started, pc, req, terminated>>
               ELSE IF ~managers[id].is_capturing
               THEN \* StopCapture has nothing to stop; the entry is erased
                    /\ terminated' = DestructorTerminates(managers[id])
                    /\ active_streams' = EraseStream(active_streams, id)
                    /\ managers' = EraseStream(managers, id)
                    /\ last' = Reply("StopStream", id, "", "OK", STATUS_SUCCESS,
                                     "", 0, 0, 0)
                    /\ UNCHANGED <<streams_mutex, total_streams_started, pc, req>>
               ELSE /\ active_streams' = [active_streams EXCEPT
                                              ![id].status = STATUS_STOPPING]
                    /\ managers' = [managers EXCEPT ![id].should_stop = TRUE]
                    /\ streams_mutex' = t
                    /\ pc' = [pc EXCEPT ![t] = "stop_join"]
                    /\ req' = [req EXCEPT ![t] = [op |-> "StopStream",
                                                  camera_id |-> id,
                                                  camera_url |-> ""]]
                    /\ UNCHANGED <<total_streams_started, last, terminated>>
    /\ UNCHANGED pipeline_vars

\* StopStream from the return of the join on: the rest of StopCapture, the
\* erase (which destroys the StreamState and its CameraManager), the response
StopStreamErase(t) ==
    /\ ~terminated
    /\ pc[t] = "stop_join"
    /\ LET id == req[t].camera_id IN
        /\ JoinReturns(managers[id])
        /\ terminated' = DestructorTerminates(StopCaptureJoined(managers[id]))
        /\ active_streams' = EraseStream(active_streams, id)
        /\ managers' = EraseStream(managers, id)
        /\ last' = Reply("StopStream", id, "", "OK", STATUS_SUCCESS, "", 0, 0, 0)
    /\ streams_mutex' = "free"
    /\ pc' = [pc EXCEPT ![t] = "idle"]
    /\ req' = [req EXCEPT ![t] = NoRequest]
    /\ UNCHANGED total_streams_started
    /\ UNCHANGED pipeline_vars

GetStreamStatus(t, id) ==
    /\ ~terminated
    /\ pc[t] = "idle"
    /\ streams_mutex = "free"
    /\ IF ~StreamExists(id)
       THEN last' = Reply("GetStreamStatus", id, "", "OK", STATUS_STOPPED, "", 0, 0, 0)
       ELSE last' = Reply("GetStreamStatus", id, "", "OK", active_streams[id].status,
                          "", active_streams[id].frames_processed,
                          active_streams[id].detections_count, 0)
    /\ UNCHANGED <<active_streams, managers, streams_mutex, total_streams_started,
                   pc, req, terminated>>
    /\ UNCHANGED pipeline_vars

GetHealth(t) ==
    /\ ~terminated
    /\ pc[t] = "idle"
    /\ streams_mutex = "free"
    /\ LET count == Cardinality(DOMAIN active_streams) IN
        last' = Reply("GetHealth", "", "", "OK", HealthStatus(active_streams, count),
                      "", 0, 0, count)
    /\ UNCHANGED <<active_streams, managers, streams_mutex, total_streams_started,
                   pc, req, terminated>>
    /\ UNCHANGED pipeline_vars

----------------------------------------------------------------------------
(* The service from its construction *)

Init ==
    /\ active_streams = <<>>
    /\ managers = <<>>
    /\ streams_mutex = "free"
    /\ total_streams_started = 0
    /\ pc = [t \in Threads |-> "idle"]
    /\ req = [t \in Threads |-> NoRequest]
    /\ last = [op |-> "none", camera_id |-> "", camera_url |-> "",
               rpc |-> "OK", status |-> "", stream_id |-> "",
               frames_processed |-> 0, detections_count |-> 0, active_streams |-> 0]
    /\ terminated = FALSE
    /\ total_frames_processed = 0
    /\ frame_stream = <<>>
    /\ processor = <<>>
    /\ callback_slot = <<>>
    /\ detector = <<>>
    /\ generator = <<>>

Next ==
    \/ \E t \in Threads, id \in CameraIds, url \in Urls :
          StartStream(t, id, url, MaxStarts)
    \/ \E t \in Threads, now \in Clock : StartStreamInsert(t, now)
    \/ \E t \in Threads, id \in CameraIds : StopStream(t, id)
    \/ \E t \in Threads : StopStreamErase(t)
    \/ \E t \in Threads, id \in CameraIds : GetStreamStatus(t, id)
    \/ \E t \in Threads : GetHealth(t)
    \/ \E id \in CameraIds, got \in BackendFrames : CaptureLoop(id, got)
    \/ \E id \in CameraIds : AttemptReconnect(id)

Spec == Init /\ [][Next]_vars

----------------------------------------------------------------------------
(* The service near its admission limit: all but two of the               *)
(* MAX_CONCURRENT_STREAMS slots are held by long-running test-pattern     *)
(* sessions, and clients start and stop three further cameras.            *)

Preloaded == {"cam1", "cam2", "cam3", "cam4", "cam5", "cam6", "cam7", "cam8"}
CapIds == {"cam9", "cam10", "cam11"}
CapUrls == {"test://pattern", "http://host/mjpeg"}

\* a session admitted by StartStream whose worker has captured MaxFrames frames
RunningCameraManager(url) ==
    LET cm == StartCaptureMark(StartCaptureSpawn(
                  Initialize(NewCameraManager(url), CameraConfig, TRUE).cm))
    IN [cm EXCEPT !.stats = [frames_captured |-> MaxFrames,
                             bytes_received |-> MaxFrames * FrameBytes(cm),
                             reconnect_count |-> 0]]

InitCap ==
    /\ active_streams = [id \in Preloaded |-> NewStreamState(id, "test://pattern")]
    /\ managers = [id \in Preloaded |-> RunningCameraManager("test://pattern")]
    /\ streams_mutex = "free"
    /\ total_streams_started = Cardinality(Preloaded)
    /\ pc = [t \in Threads |-> "idle"]
    /\ req = [t \in Threads |-> NoRequest]
    /\ last = [op |-> "StartStream", camera_id |-> "cam8",
               camera_url |-> "test://pattern", rpc |-> "OK",
               status |-> STATUS_SUCCESS, stream_id |-> GenerateStreamId("cam8", 1),
               frames_processed |-> 0, detections_count |-> 0, active_streams |-> 0]
    /\ terminated = FALSE
    /\ total_frames_processed = 0
    /\ frame_stream = <<>>
    /\ processor = <<>>
    /\ callback_slot = <<>>
    /\ detector = <<>>
    /\ generator = <<>>

NextCap ==
    \/ \E t \in Threads, id \in CapIds, url \in CapUrls :
          StartStream(t, id, url, Cardinality(Preloaded) + MaxStarts)
    \/ \E t \in Threads, now \in Clock : StartStreamInsert(t, now)
    \/ \E t \in Threads, id \in CapIds : StopStream(t, id)
    \/ \E t \in Threads : StopStreamErase(t)
    \/ \E t \in Threads, id \in CapIds : GetStreamStatus(t, id)
    \/ \E t \in Threads : GetHealth(t)
    \/ \E id \in Preloaded \cup CapIds, got \in BackendFrames : CaptureLoop(id, got)

SpecCap == InitCap /\ [][NextCap]_vars

----------------------------------------------------------------------------
(* One capture engine used directly through its public interface: a caller *)
(* thread constructs a CameraManager, calls Initialize, StartCapture,      *)
(* StopCapture, Cleanup and SetFrameCallback on it in any order and        *)
(* destroys it, while the engine's capture worker runs. The engine is      *)
(* managers[Engine]; `last` is the last completed call (its thread, its    *)
(* result and, for Initialize, its config; n alternates call by call).     *)

Engine == "engine"
Callers == {"main"}
EngineUrls == {"test://pattern", "rtsp://host/live", "rtsp://dead/live", "http://host/mjpeg"}
\* sources that open and then never deliver a frame
DeadSources == {"rtsp://dead/live"}

\* the configurations callers pass to Initialize
EngineConfigs ==
    {CameraConfig,
     [CameraConfig EXCEPT !.auto_reconnect = FALSE],
     [CameraConfig EXCEPT !.max_reconnect_attempts = 1],
     [CameraConfig EXCEPT !.width = 0],
     [CameraConfig EXCEPT !.height = -1],
     [CameraConfig EXCEPT !.fps = 0],
     [CameraConfig EXCEPT !.width = 65536, !.height = 32768],
     [CameraConfig EXCEPT !.width = 46341, !.height = 46341]}

\* what one read of a backend can yield, a decoder's exception included
EngineReads == BackendFrames \cup {"throws"}

\* what a frame callback can do when it is invoked
CallbackActs == {"returns", "StopCapture", "throws"}

\* what one read of the engine's backend can yield
BackendReads(cm) ==
    IF cm.camera_url \in DeadSources THEN {"empty"}
    ELSE IF cm.camera_type \in {"FILE_VIDEO", "WEBCAM", "RTSP_STREAM"} THEN EngineReads
    ELSE BackendFrames

NoCall == [op |-> "none", config |-> CameraConfig]
Call(op, config) == [op |-> op, config |-> config]

\* a completed engine call
Done(op, thread, result, config) ==
    [op |-> op, thread |-> thread, result |-> result, config |-> config,
     n |-> 1 - last.n]

\* Initialize up to the backend switch, on an engine that passed both checks
InitializeBegin(cm, config) ==
    [cm EXCEPT !.state = "INITIALIZING", !.config = config]

\* mutant: StopCapture never takes its early return
NothingToStop_Never(cm) == FALSE

\* StopCapture's early return: !is_capturing_.load()
NothingToStop(cm) == ~cm.is_capturing

\* StopCapture's self-join check: the caller is the capture thread
CalledFromCaptureThread(cm, thread) ==
    cm.capture_thread # "null" /\ thread = "worker"

\* mutant: Cleanup also starts the statistics afresh
CleanupReset_ResetsStats(cm) ==
    [cm EXCEPT !.frame_callback = FALSE, !.state = "UNINITIALIZED",
               !.stats = [frames_captured |-> 0, bytes_received |-> 0,
                          reconnect_count |-> 0]]

\* Cleanup after its StopCapture: clear the callback, back to UNINITIALIZED
CleanupReset(cm) ==
    [cm EXCEPT !.frame_callback = FALSE, !.state = "UNINITIALIZED"]

\* config_mutex_ is held for good by a caller that locked it twice
ConfigMutexHeld == \E t \in DOMAIN pc : pc[t] = "deadlocked"

\* this iteration of CaptureLoop ends in SetError, which locks config_mutex_
CaptureLoopSetsError(cm, got) ==
    /\ ~cm.should_stop
    /\ \/ BackendThrows(cm, got)
       \/ /\ ~CaptureSucceeds(cm, got)
          /\ ~(cm.config.auto_reconnect /\ ShouldAttemptReconnect(cm))

\* this iteration of CaptureLoop reaches NotifyFrameAvailable with a callback set
CallbackInvoked(cm, got) ==
    /\ ~cm.should_stop
    /\ ~BackendThrows(cm, got)
    /\ CaptureSucceeds(cm, got)
    /\ FrameValid(cm, got)
    /\ cm.frame_callback

\* CameraManager(camera_url)
Construct(t, url) ==
    /\ ~terminated
    /\ pc[t] = "idle"
    /\ Engine \notin DOMAIN managers
    /\ managers' = [k \in {Engine} |-> NewCameraManager(url)]
    /\ UNCHANGED <<active_streams, streams_mutex, total_streams_started,
                   pc, req, last, terminated>>
    /\ UNCHANGED pipeline_vars

\* Initialize(config) up to the backend switch. SetError("Already
\* initialized") locks config_mutex_ while the caller's lock_guard holds it:
\* the caller blocks for good, or lock() throws std::system_error.
CallInitialize(t, config) ==
    /\ ~terminated
    /\ pc[t] = "idle"
    /\ Engine \in DOMAIN managers
    /\ LET cm == managers[Engine] IN
        IF ConfigRejected(config)
        THEN /\ managers' = [managers EXCEPT ![Engine] = Initialize(cm, config, FALSE).cm]
             /\ last' = Done("Initialize", t, "false", config)
             /\ UNCHANGED <<pc, req>>
        ELSE IF cm.state # "UNINITIALIZED"
        THEN \/ /\ pc' = [pc EXCEPT ![t] = "deadlocked"]
                /\ req' = [req EXCEPT ![t] = Call("Initialize", config)]
                /\ UNCHANGED <<managers, last>>
             \/ /\ last' = Done("Initialize", t, "threw", config)
                /\ UNCHANGED <<managers, pc, req>>
        ELSE /\ managers' = [managers EXCEPT ![Engine] = InitializeBegin(cm, config)]
             /\ pc' = [pc EXCEPT ![t] = "init_backend"]
             /\ req' = [req EXCEPT ![t] = Call("Initialize", config)]
             /\ UNCHANGED last
    /\ UNCHANGED <<active_streams, streams_mutex, total_streams_started, terminated>>
    /\ UNCHANGED pipeline_vars

\* Initialize(config) from the backend switch on
CallInitializeBackend(t, opens) ==
    /\ ~terminated
    /\ pc[t] = "init_backend"
    /\ LET r == Initialize(managers[Engine], req[t].config, opens) IN
        /\ managers' = [managers EXCEPT ![Engine] = r.cm]
        /\ last' = Done("Initialize", t, IF r.ok THEN "true" ELSE "false",
                        req[t].config)
    /\ pc' = [pc EXCEPT ![t] = "idle"]
    /\ req' = [req EXCEPT ![t] = NoCall]
    /\ UNCHANGED <<active_streams, streams_mutex, total_streams_started, terminated>>
    /\ UNCHANGED pipeline_vars

\* StartCapture up to the construction of the capture thread.
\* SetError("Camera not ready for capture") locks config_mutex_ while the
\* caller's lock_guard holds it: the caller blocks for good, or lock() throws.
\* Assigning the new std::thread over one that is still joinable terminates.
CallStartCapture(t) ==
    /\ ~terminated
    /\ pc[t] = "idle"
    /\ Engine \in DOMAIN managers
    /\ LET cm == managers[Engine] IN
        IF cm.state # "READY"
        THEN \/ /\ pc' = [pc EXCEPT ![t] = "deadlocked"]
                /\ req' = [req EXCEPT ![t] = Call("StartCapture", CameraConfig)]
                /\ UNCHANGED <<managers, last, terminated>>
             \/ /\ last' = Done("StartCapture", t, "threw", CameraConfig)
                /\ UNCHANGED <<managers, pc, req, terminated>>
        ELSE IF cm.is_capturing
        THEN /\ last' = Done("StartCapture", t, "true", CameraConfig)
             /\ UNCHANGED <<managers, pc, req, terminated>>
        ELSE /\ managers' = [managers EXCEPT ![Engine] = StartCaptureSpawn(cm)]
             /\ terminated' = (cm.capture_thread # "null")
             /\ pc' = [pc EXCEPT ![t] = "start_spawned"]
             /\ req' = [req EXCEPT ![t] = Call("StartCapture", CameraConfig)]
             /\ UNCHANGED last
    /\ UNCHANGED <<active_streams, streams_mutex, total_streams_started>>
    /\ UNCHANGED pipeline_vars

\* StartCapture after the construction of the capture thread
CallStartCaptureMark(t) ==
    /\ ~terminated
    /\ pc[t] = "start_spawned"
    /\ managers' = [managers EXCEPT ![Engine] = StartCaptureMark(@)]
    /\ last' = Done("StartCapture", t, "true", CameraConfig)
    /\ pc' = [pc EXCEPT ![t] = "idle"]
    /\ req' = [req EXCEPT ![t] = NoCall]
    /\ UNCHANGED <<active_streams, streams_mutex, total_streams_started, terminated>>
    /\ UNCHANGED pipeline_vars

\* StopCapture, called by a thread that is not the worker, up to its join
CallStopCapture(t) ==
    /\ ~terminated
    /\ pc[t] = "idle"
    /\ Engine \in DOMAIN managers
    /\ LET cm == managers[Engine] IN
        IF NothingToStop(cm)
        THEN /\ last' = Done("StopCapture", t, "true", CameraConfig)
             /\ UNCHANGED <<managers, pc, req>>
        ELSE /\ managers' = [managers EXCEPT ![Engine].should_stop = TRUE]
             /\ pc' = [pc EXCEPT ![t] = "stop_join"]
             /\ req' = [req EXCEPT ![t] = Call("StopCapture", CameraConfig)]
             /\ UNCHANGED last
    /\ UNCHANGED <<active_streams, streams_mutex, total_streams_started, terminated>>
    /\ UNCHANGED pipeline_vars

\* StopCapture from the return of its join on
CallStopCaptureJoined(t) ==
    /\ ~terminated
    /\ pc[t] = "stop_join"
    /\ JoinReturns(managers[Engine])
    /\ managers' = [managers EXCEPT ![Engine] = StopCaptureJoined(@)]
    /\ last' = Done("StopCapture", t, "true", CameraConfig)
    /\ pc' = [pc EXCEPT ![t] = "idle"]
    /\ req' = [req EXCEPT ![t] = NoCall]
    /\ UNCHANGED <<active_streams, streams_mutex, total_streams_started, terminated>>
    /\ UNCHANGED pipeline_vars

\* the end of Cleanup on engine cm, called on its own or by ~CameraManager,
\* which then destroys the members: a std::thread still joinable terminates
CleanupEnd(t, op, cm) ==
    /\ IF op = "~CameraManager"
       THEN /\ managers' = EraseStream(managers, Engine)
            /\ terminated' = DestructorTerminates(CleanupReset(cm))
       ELSE /\ managers' = [managers EXCEPT ![Engine] = CleanupReset(cm)]
            /\ UNCHANGED terminated
    /\ last' = Done(op, t, "void", CameraConfig)

\* Cleanup (destroy = FALSE) or ~CameraManager (destroy = TRUE), up to the
\* join of its StopCapture
CallCleanup(t, destroy) ==
    /\ ~terminated
    /\ pc[t] = "idle"
    /\ Engine \in DOMAIN managers
    /\ LET cm == managers[Engine]
           op == IF destroy THEN "~CameraManager" ELSE "Cleanup"
       IN  IF NothingToStop(cm)
           THEN /\ CleanupEnd(t, op, cm)
                /\ UNCHANGED <<pc, req>>
           ELSE /\ managers' = [managers EXCEPT ![Engine].should_stop = TRUE]
                /\ pc' = [pc EXCEPT ![t] = "cleanup_join"]
                /\ req' = [req EXCEPT ![t] = Call(op, CameraConfig)]
                /\ UNCHANGED <<last, terminated>>
    /\ UNCHANGED <<active_streams, streams_mutex, total_streams_started>>
    /\ UNCHANGED pipeline_vars

\* Cleanup or ~CameraManager from the return of the join on
CallCleanupJoined(t) ==
    /\ ~terminated
    /\ pc[t] = "cleanup_join"
    /\ JoinReturns(managers[Engine])
    /\ CleanupEnd(t, req[t].op, StopCaptureJoined(managers[Engine]))
    /\ pc' = [pc EXCEPT ![t] = "idle"]
    /\ req' = [req EXCEPT ![t] = NoCall]
    /\ UNCHANGED <<active_streams, streams_mutex, total_streams_started>>
    /\ UNCHANGED pipeline_vars

\* SetFrameCallback(callback)
CallSetFrameCallback(t) ==
    /\ ~terminated
    /\ pc[t] = "idle"
    /\ Engine \in DOMAIN managers
    /\ managers' = [managers EXCEPT ![Engine].frame_callback = TRUE]
    /\ last' = Done("SetFrameCallback", t, "void", CameraConfig)
    /\ UNCHANGED <<active_streams, streams_mutex, total_streams_started,
                   pc, req, terminated>>
    /\ UNCHANGED pipeline_vars

\* StopCapture called on the capture thread (from the frame callback)
StopCaptureOnWorker(cm) ==
    IF NothingToStop(cm) THEN "true"
    ELSE IF CalledFromCaptureThread(cm, "worker") THEN "false"
    ELSE "joins itself"

\* one iteration of CaptureLoop by the engine's worker; `does` is what the
\* frame callback does when it is invoked: it returns, calls StopCapture, or
\* throws
WorkerCaptureLoop(got, does) ==
    /\ ~terminated
    /\ Engine \in DOMAIN managers
    /\ LET cm == managers[Engine] IN
        /\ cm.capture_thread = "loop"
        /\ got \in BackendReads(cm)
        /\ CaptureLoopSetsError(cm, got) => ~ConfigMutexHeld
        /\ does # "returns" => CallbackInvoked(cm, got)
        /\ WithinBounds(CaptureLoopBody(cm, got))
        /\ managers' = [managers EXCEPT ![Engine] =
                            NotifyFrameAvailable(CaptureLoopBody(cm, got), does)]
        /\ CASE does = "StopCapture" ->
                    last' = Done("StopCapture", "worker", StopCaptureOnWorker(cm),
                                 CameraConfig)
             [] does = "throws" ->
                    last' = Done("FrameCallback", "worker", "threw", CameraConfig)
             [] OTHER -> UNCHANGED last
    /\ UNCHANGED <<active_streams, streams_mutex, total_streams_started,
                   pc, req, terminated>>
    /\ UNCHANGED pipeline_vars

InitEngine ==
    /\ active_streams = <<>>
    /\ managers = <<>>
    /\ streams_mutex = "free"
    /\ total_streams_started = 0
    /\ pc = [t \in Callers |-> "idle"]
    /\ req = [t \in Callers |-> NoCall]
    /\ last = [op |-> "none", thread |-> "", result |-> "",
               config |-> CameraConfig, n |-> 0]
    /\ terminated = FALSE
    /\ total_frames_processed = 0
    /\ frame_stream = <<>>
    /\ processor = <<>>
    /\ callback_slot = <<>>
    /\ detector = <<>>
    /\ generator = <<>>

NextEngine ==
    \/ \E t \in Callers, url \in EngineUrls : Construct(t, url)
    \/ \E t \in Callers, config \in EngineConfigs : CallInitialize(t, config)
    \/ \E t \in Callers, opens \in BOOLEAN : CallInitializeBackend(t, opens)
    \/ \E t \in Callers : CallStartCapture(t)
    \/ \E t \in Callers : CallStartCaptureMark(t)
    \/ \E t \in Callers : CallStopCapture(t)
    \/ \E t \in Callers : CallStopCaptureJoined(t)
    \/ \E t \in Callers, destroy \in BOOLEAN : CallCleanup(t, destroy)
    \/ \E t \in Callers : CallCleanupJoined(t)
    \/ \E t \in Callers : CallSetFrameCallback(t)
    \/ \E got \in EngineReads, does \in CallbackActs : WorkerCaptureLoop(got, does)
    \/ AttemptReconnect(Engine)

SpecEngine == InitEngine /\ [][NextEngine]_vars

\* the scheduler runs the worker and lets a join that can return, return
SpecEngineFair ==
    /\ SpecEngine
    /\ WF_vars(\E got \in EngineReads, does \in CallbackActs :
                   WorkerCaptureLoop(got, does))
    /\ WF_vars(AttemptReconnect(Engine))
    /\ WF_vars(\E t \in Callers : CallStopCaptureJoined(t))

----------------------------------------------------------------------------
(* The frame processor: one FrameProcessor driven by one caller.  A        *)
(* detector is known by its name; what its Detect returns on a frame is an  *)
(* input of the call.                                                       *)

\* the registry, the engines and the calls on them, which the frame processor
\* and the frame pipeline never touch
session_vars == <<active_streams, managers, streams_mutex, total_streams_started,
                  pc, req, terminated>>

DetectorNames == {"BasicMotionDetector", "Custom"}

\* how many detections one Detect call can return
DetectorFinds == {0, 1, 2, 11}

\* arguments of SetMaxDetectionsPerFrame
DetectionLimits == {-1, 0, 1, 2, 12}

Max(a, b) == IF a >= b THEN a ELSE b

\* FrameProcessor(): not initialized, no detector, the default limit
NewFrameProcessor ==
    [initialized |-> FALSE,
     detectors |-> <<>>,
     max_detections_per_frame |-> DEFAULT_MAX_DETECTIONS,
     total_frames_processed |-> 0,
     total_detections |-> 0]

\* CreateErrorResult
CreateErrorResult(error) ==
    [success |-> FALSE, detections |-> <<>>, error_message |-> error]

\* mutant: every detection is added to the result
AddDetections_NoLimit(acc, name, n, limit) ==
    acc \o [k \in 1..n |-> name]

\* ProcessFrame's inner loop: the n detections of detector `name` are pushed
\* onto the result while it holds fewer than `limit`
RECURSIVE AddDetections(_, _, _, _)
AddDetections(acc, name, n, limit) ==
    IF n = 0 THEN acc
    ELSE IF Len(acc) < limit
    THEN AddDetections(Append(acc, name), name, n - 1, limit)
    ELSE acc

\* ProcessFrame's outer loop over detectors_, from detector i on
RECURSIVE ApplyDetectors(_, _, _, _, _)
ApplyDetectors(detectors, found, i, acc, limit) ==
    IF i > Len(detectors) THEN acc
    ELSE ApplyDetectors(detectors, found, i + 1,
                        AddDetections(acc, detectors[i], found[i], limit), limit)

\* the result of ProcessFrame(frame): `valid` is ValidateFrame(frame),
\* found[i] the number of detections of detector i, and `throws` the index
\* of the detector whose Detect throws (0: none does)
ProcessFrameResult(p, valid, found, throws) ==
    IF ~p.initialized THEN CreateErrorResult("FrameProcessor not initialized")
    ELSE IF ~valid THEN CreateErrorResult("Invalid frame data")
    ELSE IF throws \in 1..Len(p.detectors) THEN CreateErrorResult("Processing error")
    ELSE [success |-> TRUE,
          detections |-> ApplyDetectors(p.detectors, found, 1, <<>>,
                                        p.max_detections_per_frame),
          error_message |-> ""]

\* the detectors whose Detect is called by ProcessFrame(frame), by position:
\* the loop over detectors_ has no exit of its own (the break at the limit
\* leaves the inner loop only), so it ends at the last detector or at the one
\* that throws
DetectorsInvoked(p, valid, throws) ==
    IF ~p.initialized \/ ~valid THEN {}
    ELSE IF throws \in 1..Len(p.detectors) THEN 1..throws
    ELSE 1..Len(p.detectors)

UpdateStatistics_FramesOnly(p, detections_count) ==
    [p EXCEPT !.total_frames_processed = @ + 1]

\* UpdateStatistics
UpdateStatistics(p, detections_count) ==
    [p EXCEPT !.total_frames_processed = @ + 1,
              !.total_detections = @ + detections_count]

RemoveNamed_FirstOnly(detectors, name) ==
    IF \E i \in 1..Len(detectors) : detectors[i] = name
    THEN LET i == CHOOSE k \in 1..Len(detectors) :
                      /\ detectors[k] = name
                      /\ \A j \in 1..(k - 1) : detectors[j] # name
         IN SubSeq(detectors, 1, i - 1) \o SubSeq(detectors, i + 1, Len(detectors))
    ELSE detectors

\* the detectors that RemoveDetector(name) keeps
RECURSIVE RemoveNamed(_, _)
RemoveNamed(detectors, name) ==
    IF detectors = <<>> THEN <<>>
    ELSE IF Head(detectors) = name THEN RemoveNamed(Tail(detectors), name)
    ELSE <<Head(detectors)>> \o RemoveNamed(Tail(detectors), name)

\* the record of the last completed call on the frame processor
Called(op, result) == [op |-> op, result |-> result]

\* the record of a completed AddDetector or RemoveDetector call
CalledDetector(op, name, ok) ==
    [op |-> op, result |-> CreateErrorResult(""), name |-> name, ok |-> ok]

\* the record of a completed ProcessFrame call
CalledProcessFrame(result, valid, found, invoked) ==
    [op |-> "ProcessFrame", result |-> result, valid |-> valid, found |-> found,
     invoked |-> invoked]

ProcessorInitialize ==
    /\ IF processor.initialized
       THEN UNCHANGED processor
       ELSE /\ Len(processor.detectors) < MaxDetectors
            /\ processor' = [processor EXCEPT
                                !.detectors = Append(@, "BasicMotionDetector"),
                                !.initialized = TRUE]
    /\ last' = Called("Initialize", CreateErrorResult(""))
    /\ UNCHANGED <<session_vars, total_frames_processed, frame_stream, component_vars>>

ProcessorCleanup ==
    /\ processor' = [processor EXCEPT !.detectors = <<>>, !.initialized = FALSE]
    /\ last' = Called("Cleanup", CreateErrorResult(""))
    /\ UNCHANGED <<session_vars, total_frames_processed, frame_stream, component_vars>>

\* AddDetector(detector); `ok` is what the detector's Initialize returns
AddDetector(name, ok) ==
    /\ Len(processor.detectors) < MaxDetectors
    /\ processor' = IF ok THEN [processor EXCEPT !.detectors = Append(@, name)]
                    ELSE processor
    /\ last' = CalledDetector("AddDetector", name, ok)
    /\ UNCHANGED <<session_vars, total_frames_processed, frame_stream, component_vars>>

RemoveDetector(name) ==
    /\ processor' = [processor EXCEPT !.detectors = RemoveNamed(@, name)]
    /\ last' = CalledDetector("RemoveDetector", name, TRUE)
    /\ UNCHANGED <<session_vars, total_frames_processed, frame_stream, component_vars>>

SetMaxDetectionsPerFrame(max_detections) ==
    /\ processor' = [processor EXCEPT
                        !.max_detections_per_frame = Max(1, max_detections)]
    /\ last' = Called("SetMaxDetectionsPerFrame", CreateErrorResult(""))
    /\ UNCHANGED <<session_vars, total_frames_processed, frame_stream, component_vars>>

ProcessFrame(valid, found, throws) ==
    /\ processor.total_frames_processed < MaxProcessed
    /\ LET result == ProcessFrameResult(processor, valid, found, throws) IN
        /\ processor' = IF processor.initialized /\ valid
                        THEN UpdateStatistics(processor, Len(result.detections))
                        ELSE processor
        /\ last' = CalledProcessFrame(result, valid, found,
                                       DetectorsInvoked(processor, valid, throws))
    /\ UNCHANGED <<session_vars, total_frames_processed, frame_stream, component_vars>>

InitProcessor ==
    /\ active_streams = <<>>
    /\ managers = <<>>
    /\ streams_mutex = "free"
    /\ total_streams_started = 0
    /\ pc = [t \in Threads |-> "idle"]
    /\ req = [t \in Threads |-> NoRequest]
    /\ terminated = FALSE
    /\ total_frames_processed = 0
    /\ frame_stream = <<>>
    /\ processor = NewFrameProcessor
    /\ callback_slot = <<>>
    /\ detector = <<>>
    /\ generator = <<>>
    /\ last = Called("none", CreateErrorResult(""))

NextProcessor ==
    \/ ProcessorInitialize
    \/ ProcessorCleanup
    \/ \E name \in DetectorNames, ok \in BOOLEAN : AddDetector(name, ok)
    \/ \E name \in DetectorNames : RemoveDetector(name)
    \/ \E n \in DetectionLimits : SetMaxDetectionsPerFrame(n)
    \/ \E valid \in BOOLEAN, found \in [1..MaxDetectors -> DetectorFinds],
          throws \in 0..MaxDetectors : ProcessFrame(valid, found, throws)

SpecProcessor == InitProcessor /\ [][NextProcessor]_vars

\* the detector list on its own: AddDetector and RemoveDetector are called on
\* a processor that already holds any list of up to MaxListed detectors
MaxListed == 3

ListedNames == DetectorNames \cup {"Other"}

ListedDetectors == UNION {[1..n -> ListedNames] : n \in 0..MaxListed}

InitDetectors ==
    /\ active_streams = <<>>
    /\ managers = <<>>
    /\ streams_mutex = "free"
    /\ total_streams_started = 0
    /\ pc = [t \in Threads |-> "idle"]
    /\ req = [t \in Threads |-> NoRequest]
    /\ terminated = FALSE
    /\ total_frames_processed = 0
    /\ frame_stream = <<>>
    /\ \E listed \in ListedDetectors :
          processor = [NewFrameProcessor EXCEPT !.detectors = listed]
    /\ callback_slot = <<>>
    /\ detector = <<>>
    /\ generator = <<>>
    /\ last = Called("none", CreateErrorResult(""))

NextDetectors ==
    \/ \E name \in ListedNames, ok \in BOOLEAN : AddDetector(name, ok)
    \/ \E name \in ListedNames : RemoveDetector(name)

SpecDetectors == InitDetectors /\ [][NextDetectors]_vars

----------------------------------------------------------------------------
(* URL classification on its own: DetectCameraType, a static function, is   *)
(* called on one URL after another.                                         *)

\* the URLs DetectCameraType is called with: every rule alone, URLs that
\* match several rules, and near misses of each rule
ClassifyUrls ==
    {"", "test://pattern", "test://", "test://x.mp4", "test:/pattern",
     "rtsp://x/y", "rtsp://h/a.mp4", "rtmp://h/s", "rtp://h/dev/video0",
     "xrtsp://h", "RTSP://h", "rtsp:/h",
     "http://h/v.mp4", "https://h/", "http://test://", "a/http://h",
     "/dev/video2", "/dev/video0.avi", "/dev/v4l/by-id/cam", "/dev/v4l/by-path/cam",
     "movie.mp4", "clip.webm", ".mkv", "mp4", "movie.mp4.txt", "file.MP4",
     "/srv/clip", "/srv/none", "not-a-url"}

\* the record of the last DetectCameraType call and of the URL of the call
\* before it
Classified(url, result, prev) ==
    [op |-> "DetectCameraType", url |-> url, result |-> result, prev |-> prev]

\* one call of DetectCameraType(url)
CallDetectCameraType(url) ==
    /\ last' = Classified(url, DetectCameraType(url), last.url)
    /\ UNCHANGED <<session_vars, pipeline_vars>>

InitClassify ==
    /\ active_streams = <<>>
    /\ managers = <<>>
    /\ streams_mutex = "free"
    /\ total_streams_started = 0
    /\ pc = [t \in Threads |-> "idle"]
    /\ req = [t \in Threads |-> NoRequest]
    /\ terminated = FALSE
    /\ total_frames_processed = 0
    /\ frame_stream = <<>>
    /\ processor = <<>>
    /\ callback_slot = <<>>
    /\ detector = <<>>
    /\ generator = <<>>
    /\ last = [op |-> "none", url |-> "", result |-> "UNKNOWN", prev |-> ""]

NextClassify == \E url \in ClassifyUrls : CallDetectCameraType(url)

SpecClassify == InitClassify /\ [][NextClassify]_vars

----------------------------------------------------------------------------
(* The frame pipeline: ProcessFrames handlers, one per thread, each on its  *)
(* own bidirectional stream.  frame_stream[t] holds the requests handler t  *)
(* has read, the responses it has written, and how it returned.             *)

\* the registry holds this session while frames are processed
FrameSessions == {"cam1"}

\* the camera_id of a FrameRequest
FrameCameraIds == {"", "cam1", "cam9"}

FrameRequest(camera_id, timestamp) == [camera_id |-> camera_id, timestamp |-> timestamp]

\* a stream on which ProcessFrames has not been called
NoFrameStream ==
    [state |-> "idle", requests |-> <<>>, responses |-> <<>>,
     rpc |-> "", cause |-> ""]

\* mutant: the response carries the processing stats alone
FrameResponse_NoEcho(request) ==
    [camera_id |-> "", timestamp |-> 0,
     processing_time_ms |-> 10, detections_count |-> 0]

\* the FrameResponse ProcessFrames builds for a request
FrameResponse(request) ==
    [camera_id |-> request.camera_id, timestamp |-> request.timestamp,
     processing_time_ms |-> 10, detections_count |-> 0]

\* ProcessFrames is called on a new stream
ProcessFramesBegin(t) ==
    /\ frame_stream[t].state = "idle"
    /\ frame_stream' = [frame_stream EXCEPT ![t].state = "open"]
    /\ UNCHANGED <<session_vars, last, total_frames_processed, processor, component_vars>>

\* one iteration of the loop: Read returns a request, and Write of its
\* response returns `written`
ProcessFramesStep(t, request, written) ==
    /\ frame_stream[t].state = "open"
    /\ Len(frame_stream[t].requests) < MaxRequests
    /\ IF written
       THEN /\ frame_stream' = [frame_stream EXCEPT
                                   ![t].requests = Append(@, request),
                                   ![t].responses = Append(@, FrameResponse(request))]
            /\ total_frames_processed' = total_frames_processed + 1
       ELSE /\ frame_stream' = [frame_stream EXCEPT
                                   ![t].requests = Append(@, request),
                                   ![t].state = "ended",
                                   ![t].rpc = "OK",
                                   ![t].cause = "write failed"]
            /\ UNCHANGED total_frames_processed
    /\ UNCHANGED <<session_vars, last, processor, component_vars>>

\* Read returns false: the inbound stream is closed
ProcessFramesEnd(t) ==
    /\ frame_stream[t].state = "open"
    /\ frame_stream' = [frame_stream EXCEPT
                           ![t].state = "ended",
                           ![t].rpc = "OK",
                           ![t].cause = "closed"]
    /\ UNCHANGED <<session_vars, last, total_frames_processed, processor, component_vars>>

InitFrames ==
    /\ active_streams = [id \in FrameSessions |-> NewStreamState(id, "test://pattern")]
    /\ managers = [id \in FrameSessions |-> RunningCameraManager("test://pattern")]
    /\ streams_mutex = "free"
    /\ total_streams_started = Cardinality(FrameSessions)
    /\ pc = [t \in Threads |-> "idle"]
    /\ req = [t \in Threads |-> NoRequest]
    /\ last = [op |-> "none"]
    /\ terminated = FALSE
    /\ total_frames_processed = 0
    /\ frame_stream = [t \in Threads |-> NoFrameStream]
    /\ processor = <<>>
    /\ callback_slot = <<>>
    /\ detector = <<>>
    /\ generator = <<>>

NextFrames ==
    \/ \E t \in Threads : ProcessFramesBegin(t)
    \/ \E t \in Threads, id \in FrameCameraIds, ts \in Clock, written \in BOOLEAN :
           ProcessFramesStep(t, FrameRequest(id, ts), written)
    \/ \E t \in Threads : ProcessFramesEnd(t)

SpecFrames == InitFrames /\ [][NextFrames]_vars

----------------------------------------------------------------------------
(* The capture engine under two callers: one initialized CameraManager on   *)
(* which two threads call StartCapture and StopCapture concurrently.        *)

RaceCallers == {"main", "other"}

\* the sources and configurations of the shared engine
RaceUrls == {"test://pattern", "rtsp://host/live", "rtsp://dead/live"}
RaceConfigs == {CameraConfig, [CameraConfig EXCEPT !.auto_reconnect = FALSE]}

\* an engine after Initialize(config) returned true
ReadyCameraManager(url, config) == Initialize(NewCameraManager(url), config, TRUE).cm

InitEngineRace ==
    /\ active_streams = <<>>
    /\ \E url \in RaceUrls, config \in RaceConfigs :
          managers = [e \in {Engine} |-> ReadyCameraManager(url, config)]
    /\ streams_mutex = "free"
    /\ total_streams_started = 0
    /\ pc = [t \in RaceCallers |-> "idle"]
    /\ req = [t \in RaceCallers |-> NoCall]
    /\ last = [op |-> "Initialize", thread |-> "main", result |-> "true",
               config |-> CameraConfig, n |-> 0]
    /\ terminated = FALSE
    /\ total_frames_processed = 0
    /\ frame_stream = <<>>
    /\ processor = <<>>
    /\ callback_slot = <<>>
    /\ detector = <<>>
    /\ generator = <<>>

NextEngineRace ==
    \/ \E t \in RaceCallers : CallStartCapture(t)
    \/ \E t \in RaceCallers : CallStartCaptureMark(t)
    \/ \E t \in RaceCallers : CallStopCapture(t)
    \/ \E t \in RaceCallers : CallStopCaptureJoined(t)
    \/ \E got \in EngineReads, does \in CallbackActs : WorkerCaptureLoop(got, does)
    \/ AttemptReconnect(Engine)

SpecEngineRace == InitEngineRace /\ [][NextEngineRace]_vars

----------------------------------------------------------------------------
(* The frame callback of one capturing engine: the capture thread delivers  *)
(* each captured frame through NotifyFrameAvailable while other threads     *)
(* call SetFrameCallback and ClearFrameCallback.  callback_mutex_ is taken  *)
(* and released in separate steps, so that every interleaving of the        *)
(* critical sections is explored.                                           *)

\* the capture thread delivers at most this many frames
MaxDispatched == 3

\* the callbacks a caller installs
Callbacks == {"f", "g"}

\* frame_callback_ and callback_mutex_ after construction, with the capture
\* thread about to capture its first frame
NewCallbackSlot ==
    [mutex          |-> "free",
     frame_callback |-> "null",
     arg            |-> [t \in Threads |-> "null"],
     worker         |-> "capture",
     captured       |-> 0,
     invoking       |-> "none",
     delivered      |-> <<>>]

CallbackMutexFree_Ignored(slot) == TRUE

\* std::lock_guard<std::mutex> lock(callback_mutex_) can be constructed
CallbackMutexFree(slot) == slot.mutex = "free"

\* CaptureFrame: a frame is captured and validated, NotifyFrameAvailable is next
CaptureFrameForCallback ==
    /\ callback_slot.worker = "capture"
    /\ callback_slot.captured < MaxDispatched
    /\ callback_slot' = [callback_slot EXCEPT !.captured = @ + 1,
                                              !.worker = "notify"]
    /\ UNCHANGED <<session_vars, last, total_frames_processed, frame_stream,
                   processor, detector, generator>>

\* NotifyFrameAvailable: take callback_mutex_; without a callback release it at
\* once, otherwise enter the callback with the frame
NotifyFrameAvailableBegin ==
    /\ callback_slot.worker = "notify"
    /\ CallbackMutexFree(callback_slot)
    /\ IF callback_slot.frame_callback = "null"
       THEN callback_slot' = [callback_slot EXCEPT !.worker = "capture"]
       ELSE callback_slot' =
                [callback_slot EXCEPT
                    !.mutex = "worker",
                    !.worker = "callback",
                    !.invoking = callback_slot.frame_callback,
                    !.delivered = Append(@, [frame    |-> callback_slot.captured,
                                             callback |-> callback_slot.frame_callback])]
    /\ UNCHANGED <<session_vars, last, total_frames_processed, frame_stream,
                   processor, detector, generator>>

\* NotifyFrameAvailable: the callback returned or threw, callback_mutex_ is released
NotifyFrameAvailableEnd(does) ==
    /\ callback_slot.worker = "callback"
    /\ callback_slot' = [callback_slot EXCEPT !.mutex = "free",
                                              !.worker = "capture",
                                              !.invoking = "none"]
    /\ last' = Called("FrameCallback", does)
    /\ UNCHANGED <<session_vars, total_frames_processed, frame_stream,
                   processor, detector, generator>>

\* SetFrameCallback(callback): callback_mutex_ taken
SetFrameCallbackLock(t, callback) ==
    /\ pc[t] = "idle"
    /\ CallbackMutexFree(callback_slot)
    /\ callback_slot' = [callback_slot EXCEPT !.mutex = t, !.arg[t] = callback]
    /\ pc' = [pc EXCEPT ![t] = "set_callback"]
    /\ UNCHANGED <<active_streams, managers, streams_mutex, total_streams_started,
                   req, terminated, last, total_frames_processed, frame_stream,
                   processor, detector, generator>>

\* SetFrameCallback(callback): frame_callback_ assigned, lock released, return
SetFrameCallbackAssign(t) ==
    /\ pc[t] = "set_callback"
    /\ callback_slot' = [callback_slot EXCEPT !.mutex = "free",
                                              !.frame_callback = callback_slot.arg[t],
                                              !.arg[t] = "null"]
    /\ pc' = [pc EXCEPT ![t] = "idle"]
    /\ last' = Called("SetFrameCallback", "void")
    /\ UNCHANGED <<active_streams, managers, streams_mutex, total_streams_started,
                   req, terminated, total_frames_processed, frame_stream,
                   processor, detector, generator>>

\* ClearFrameCallback(): callback_mutex_ taken
ClearFrameCallbackLock(t) ==
    /\ pc[t] = "idle"
    /\ CallbackMutexFree(callback_slot)
    /\ callback_slot' = [callback_slot EXCEPT !.mutex = t]
    /\ pc' = [pc EXCEPT ![t] = "clear_callback"]
    /\ UNCHANGED <<active_streams, managers, streams_mutex, total_streams_started,
                   req, terminated, last, total_frames_processed, frame_stream,
                   processor, detector, generator>>

\* ClearFrameCallback(): frame_callback_ = nullptr, lock released, return
ClearFrameCallbackAssign(t) ==
    /\ pc[t] = "clear_callback"
    /\ callback_slot' = [callback_slot EXCEPT !.mutex = "free",
                                              !.frame_callback = "null"]
    /\ pc' = [pc EXCEPT ![t] = "idle"]
    /\ last' = Called("ClearFrameCallback", "void")
    /\ UNCHANGED <<active_streams, managers, streams_mutex, total_streams_started,
                   req, terminated, total_frames_processed, frame_stream,
                   processor, detector, generator>>

InitCallback ==
    /\ active_streams = <<>>
    /\ managers = <<>>
    /\ streams_mutex = "free"
    /\ total_streams_started = 0
    /\ pc = [t \in Threads |-> "idle"]
    /\ req = [t \in Threads |-> NoRequest]
    /\ terminated = FALSE
    /\ total_frames_processed = 0
    /\ frame_stream = <<>>
    /\ processor = <<>>
    /\ callback_slot = NewCallbackSlot
    /\ detector = <<>>
    /\ generator = <<>>
    /\ last = Called("none", "void")

NextCallback ==
    \/ CaptureFrameForCallback
    \/ NotifyFrameAvailableBegin
    \/ \E does \in {"returns", "throws"} : NotifyFrameAvailableEnd(does)
    \/ \E t \in Threads, callback \in Callbacks : SetFrameCallbackLock(t, callback)
    \/ \E t \in Threads : SetFrameCallbackAssign(t)
    \/ \E t \in Threads : ClearFrameCallbackLock(t)
    \/ \E t \in Threads : ClearFrameCallbackAssign(t)

SpecCallback == InitCallback /\ [][NextCallback]_vars

----------------------------------------------------------------------------
(* The reference motion detector on its own: one BasicMotionDetector is     *)
(* initialized, cleaned up and asked to Detect on frames of several sizes.  *)

\* Detect is followed for this many calls after an Initialize
MaxDetectCalls == 3

\* frame.data.size() of the frames passed to Detect (0: a frame without data)
FrameSizes == {0, 4, 8}

\* values of detection_counter_ from which Detect is followed
CounterSamples == {0, 9, 10, 39, 40, 399, 400, 2015}

\* BasicMotionDetector(): previous_frame_ is a default Frame, without data.
\* calls and last_size are history fields: the Detect calls since the last
\* Initialize and the data size of the frame of the latest Detect call
NewBasicMotionDetector ==
    [initialized       |-> FALSE,
     detection_counter |-> 0,
     previous_size     |-> 0,
     calls             |-> 0,
     last_size         |-> 0]

\* the detector after `counter` detections, the latest on a frame of `size` bytes
UsedMotionDetector(counter, size) ==
    [initialized       |-> TRUE,
     detection_counter |-> counter,
     previous_size     |-> size,
     calls             |-> 1,
     last_size         |-> size]

\* HasSignificantChange(current, previous): `draw` is dis(gen) < 0.3
HasSignificantChange(current_size, previous_size, draw) ==
    IF current_size # previous_size THEN TRUE ELSE draw

\* the bounding box of the detection reported at detection_counter_ = c
MotionBox(c) ==
    [x      |-> 100 + (c % 400),
     y      |-> 100 + ((c \div 10) % 200),
     width  |-> 80 + (c % 40),
     height |-> 60 + (c % 30)]

\* the detections returned by Detect(frame)
DetectResult(d, size, draw) ==
    IF ~d.initialized THEN <<>>
    ELSE IF d.previous_size = 0 THEN <<>>
    ELSE IF HasSignificantChange(size, d.previous_size, draw)
    THEN <<MotionBox(d.detection_counter)>>
    ELSE <<>>

\* the record of a completed call on the detector
CalledMotionDetector(op, size, result) ==
    [op |-> op, size |-> size, result |-> result]

\* BasicMotionDetector::Initialize
MotionDetectorInitialize ==
    /\ detector' = [detector EXCEPT !.initialized = TRUE,
                                    !.detection_counter = 0,
                                    !.calls = 0]
    /\ last' = CalledMotionDetector("Initialize", 0, <<>>)
    /\ UNCHANGED <<session_vars, total_frames_processed, frame_stream, processor,
                   callback_slot, generator>>

\* BasicMotionDetector::Cleanup
MotionDetectorCleanup ==
    /\ detector' = [detector EXCEPT !.initialized = FALSE, !.previous_size = 0]
    /\ last' = CalledMotionDetector("Cleanup", 0, <<>>)
    /\ UNCHANGED <<session_vars, total_frames_processed, frame_stream, processor,
                   callback_slot, generator>>

\* BasicMotionDetector::Detect(frame)
Detect(size, draw) ==
    /\ detector.calls < MaxDetectCalls
    /\ LET result == DetectResult(detector, size, draw) IN
        /\ detector' =
              IF ~detector.initialized THEN detector
              ELSE [detector EXCEPT
                      !.detection_counter = @ + Len(result),
                      !.previous_size = size,
                      !.calls = @ + 1,
                      !.last_size = size]
        /\ last' = CalledMotionDetector("Detect", size, result)
    /\ UNCHANGED <<session_vars, total_frames_processed, frame_stream, processor,
                   callback_slot, generator>>

InitMotionDetector ==
    /\ active_streams = <<>>
    /\ managers = <<>>
    /\ streams_mutex = "free"
    /\ total_streams_started = 0
    /\ pc = [t \in Threads |-> "idle"]
    /\ req = [t \in Threads |-> NoRequest]
    /\ terminated = FALSE
    /\ total_frames_processed = 0
    /\ frame_stream = <<>>
    /\ processor = <<>>
    /\ callback_slot = <<>>
    /\ \/ detector = NewBasicMotionDetector
       \/ \E counter \in CounterSamples, size \in FrameSizes \ {0} :
              detector = UsedMotionDetector(counter, size)
    /\ generator = <<>>
    /\ last = CalledMotionDetector("none", 0, <<>>)

NextMotionDetector ==
    \/ MotionDetectorInitialize
    \/ MotionDetectorCleanup
    \/ \E size \in FrameSizes, draw \in BOOLEAN : Detect(size, draw)

SpecMotionDetector == InitMotionDetector /\ [][NextMotionDetector]_vars

----------------------------------------------------------------------------
(* Test-pattern capture of two sessions running at once.  CaptureTestFrame  *)
(* keeps its rotation in a function-local static int, so every engine of    *)
(* the process reads and advances the same pattern_type, without a lock:    *)
(* the read and the increment are separate steps, and an increment racing   *)
(* with another one may be lost.                                            *)

\* each test-pattern session captures at most this many frames
MaxPatternFrames == 6

\* the sessions capturing from test://pattern
PatternSessions == {"cam1", "cam2"}

\* config_.fps of the sessions
PatternFps == {1}

\* the switch of CaptureTestFrame on pattern_type % 5
PatternOf(pattern_type) ==
    CASE pattern_type % 5 = 0 -> "ColorBars"
      [] pattern_type % 5 = 1 -> "Checkerboard"
      [] pattern_type % 5 = 2 -> "MovingBox"
      [] pattern_type % 5 = 3 -> "Noise"
      [] pattern_type % 5 = 4 -> "TimeCode"

\* the static pattern_type before the first call, and the sessions' capture
\* threads before their first frame; shown is the history of the patterns a
\* session has captured, read the value of pattern_type a thread last read
NewPatternGenerator(fps) ==
    [pattern_type |-> 0,
     sessions |-> [id \in PatternSessions |->
                      [fps |-> fps[id], frames_captured |-> 0, at |-> "generate",
                       read |-> 0, shown |-> <<>>]]]

\* the frames of one pattern: std::max(1, config_.fps) * 5
PatternPeriod(fps) == Max(1, fps) * 5

\* CaptureTestFrame, first half: the frame of pattern_type % 5 is generated
CaptureTestFrameGenerate(id) ==
    /\ generator.sessions[id].at = "generate"
    /\ generator.sessions[id].frames_captured < MaxPatternFrames
    /\ generator' = [generator EXCEPT
                        !.sessions[id].shown = Append(@, PatternOf(generator.pattern_type)),
                        !.sessions[id].read = generator.pattern_type,
                        !.sessions[id].at = "advance"]
    /\ UNCHANGED <<session_vars, last, total_frames_processed, frame_stream,
                   processor, callback_slot, detector>>

\* CaptureTestFrame, second half: pattern_type++ when frames_captured is a
\* multiple of the period (`torn`: the increment uses the value read before
\* another thread's increment); then UpdateStats counts the frame
CaptureTestFrameAdvance(id, torn) ==
    /\ generator.sessions[id].at = "advance"
    /\ LET s == generator.sessions[id] IN
        generator' = [generator EXCEPT
            !.pattern_type =
                IF s.frames_captured % PatternPeriod(s.fps) = 0
                THEN (IF torn THEN s.read ELSE @) + 1
                ELSE @,
            !.sessions[id].frames_captured = @ + 1,
            !.sessions[id].at = "generate"]
    /\ UNCHANGED <<session_vars, last, total_frames_processed, frame_stream,
                   processor, callback_slot, detector>>

InitPatterns ==
    /\ active_streams = <<>>
    /\ managers = <<>>
    /\ streams_mutex = "free"
    /\ total_streams_started = 0
    /\ pc = [t \in Threads |-> "idle"]
    /\ req = [t \in Threads |-> NoRequest]
    /\ terminated = FALSE
    /\ total_frames_processed = 0
    /\ frame_stream = <<>>
    /\ processor = <<>>
    /\ callback_slot = <<>>
    /\ detector = <<>>
    /\ \E fps \in [PatternSessions -> PatternFps] : generator = NewPatternGenerator(fps)
    /\ last = Called("none", "void")

NextPatterns ==
    \/ \E id \in PatternSessions : CaptureTestFrameGenerate(id)
    \/ \E id \in PatternSessions, torn \in BOOLEAN : CaptureTestFrameAdvance(id, torn)

SpecPatterns == InitPatterns /\ [][NextPatterns]_vars

----------------------------------------------------------------------------
(* The service over its whole lifetime: the handlers and workers of the      *)
(* registry, and ~VisionServiceImpl run once no handler is in progress.      *)
(* active_streams_.clear() destroys one StreamState after the other; each    *)
(* ~CameraManager runs Cleanup, whose StopCapture stops and joins the worker.*)

\* the stream ~VisionServiceImpl is destroying
Destroying(id) == [op |-> "~StreamState", camera_id |-> id, camera_url |-> ""]

\* ~VisionServiceImpl: LockStreams(); the server has shut down, no handler runs
DestroyService(t) ==
    /\ ~terminated
    /\ \A u \in Threads : pc[u] = "idle"
    /\ streams_mutex = "free"
    /\ streams_mutex' = t
    /\ pc' = [u \in Threads |-> IF u = t THEN "destroy" ELSE "shutdown"]
    /\ UNCHANGED <<active_streams, managers, total_streams_started, req, last,
                   terminated>>
    /\ UNCHANGED pipeline_vars

\* active_streams_.clear(), one element: ~CameraManager -> Cleanup -> StopCapture
\* up to its join (or its early return when the engine is not capturing)
DestroyStreamStop(t, id) ==
    /\ ~terminated
    /\ pc[t] = "destroy"
    /\ req[t] = NoRequest
    /\ StreamExists(id)
    /\ IF ~managers[id].is_capturing
       THEN /\ terminated' = DestructorTerminates(managers[id])
            /\ active_streams' = EraseStream(active_streams, id)
            /\ managers' = EraseStream(managers, id)
            /\ UNCHANGED req
       ELSE /\ managers' = [managers EXCEPT ![id].should_stop = TRUE]
            /\ req' = [req EXCEPT ![t] = Destroying(id)]
            /\ UNCHANGED <<active_streams, terminated>>
    /\ UNCHANGED <<streams_mutex, total_streams_started, pc, last>>
    /\ UNCHANGED pipeline_vars

\* active_streams_.clear(), one element, from the return of the join on
DestroyStreamJoined(t) ==
    /\ ~terminated
    /\ pc[t] = "destroy"
    /\ req[t].op = "~StreamState"
    /\ LET id == req[t].camera_id IN
        /\ JoinReturns(managers[id])
        /\ terminated' = DestructorTerminates(StopCaptureJoined(managers[id]))
        /\ active_streams' = EraseStream(active_streams, id)
        /\ managers' = EraseStream(managers, id)
    /\ req' = [req EXCEPT ![t] = NoRequest]
    /\ UNCHANGED <<streams_mutex, total_streams_started, pc, last>>
    /\ UNCHANGED pipeline_vars

\* ~VisionServiceImpl: the map is empty, the lock is released
DestroyServiceEnd(t) ==
    /\ ~terminated
    /\ pc[t] = "destroy"
    /\ req[t] = NoRequest
    /\ DOMAIN active_streams = {}
    /\ streams_mutex' = "free"
    /\ pc' = [pc EXCEPT ![t] = "destroyed"]
    /\ last' = Reply("~VisionServiceImpl", "", "", "OK", "", "", 0, 0, 0)
    /\ UNCHANGED <<active_streams, managers, total_streams_started, req, terminated>>
    /\ UNCHANGED pipeline_vars

NextLifetime ==
    \/ Next
    \/ \E t \in Threads : DestroyService(t)
    \/ \E t \in Threads, id \in CameraIds : DestroyStreamStop(t, id)
    \/ \E t \in Threads : DestroyStreamJoined(t)
    \/ \E t \in Threads : DestroyServiceEnd(t)

SpecLifetime == Init /\ [][NextLifetime]_vars

----------------------------------------------------------------------------
(* The registry under a fair scheduler: every capture thread keeps running, *)
(* and a handler that holds the registry lock is scheduled when it can      *)
(* continue (StartStream to its insertion, StopStream when its join can     *)
(* return).                                                                 *)

\* the admissions followed under the fair scheduler
MaxFairStarts == 2

\* the camera URLs of the requests under the fair scheduler
FairUrls == {"", "test://pattern", "rtsp://host/live"}

NextFair ==
    \/ \E t \in Threads, id \in CameraIds, url \in FairUrls :
          StartStream(t, id, url, MaxFairStarts)
    \/ \E t \in Threads, now \in Clock : StartStreamInsert(t, now)
    \/ \E t \in Threads, id \in CameraIds : StopStream(t, id)
    \/ \E t \in Threads : StopStreamErase(t)
    \/ \E t \in Threads, id \in CameraIds : GetStreamStatus(t, id)
    \/ \E t \in Threads : GetHealth(t)
    \/ \E id \in CameraIds, got \in BackendFrames : CaptureLoop(id, got)
    \/ \E id \in CameraIds : AttemptReconnect(id)

SpecFair ==
    /\ Init /\ [][NextFair]_vars
    /\ \A id \in CameraIds \ {""} :
          /\ WF_vars(\E got \in BackendFrames : CaptureLoop(id, got))
          /\ WF_vars(AttemptReconnect(id))
    /\ WF_vars(\E t \in Threads, now \in Clock : StartStreamInsert(t, now))
    /\ WF_vars(\E t \in Threads : StopStreamErase(t))

----------------------------------------------------------------------------
(* Properties *)

\* the number of entries in the session registry
Count == Cardinality(DOMAIN active_streams)

\* a step in which an RPC completes with op as its method
Returns(op) == last' # last /\ last'.op = op

\* a step that leaves the registry, the engines and the counter as they were
SessionsUnchanged == UNCHANGED <<active_streams, managers, total_streams_started>>

\* the worker of engine cm is running (inside CaptureLoop or its reconnect sleep)
WorkerRunning(cm) == cm.capture_thread \in {"loop", "backoff"}

\* C1: under every interleaving of StartStream and StopStream calls the
\* registry never holds more than MAX_CONCURRENT_STREAMS entries, and a
\* StartStream (with a request that passes validation) that arrives while
\* MAX_CONCURRENT_STREAMS sessions are active is answered OK with in-body
\* status=error and inserts nothing.
C1_RegistryWithinLimit ==
    /\ [](Count <= MAX_CONCURRENT_STREAMS)
    /\ [][(/\ Returns("StartStream")
            /\ ValidateStreamRequest(last'.camera_id, last'.camera_url) = "OK"
            /\ Count >= MAX_CONCURRENT_STREAMS)
           => (/\ last'.rpc = "OK"
               /\ last'.status = STATUS_ERROR
               /\ SessionsUnchanged)]_vars

\* C1 witness: a StartStream for a camera that is not in the registry was
\* refused with status=error while MAX_CONCURRENT_STREAMS sessions are active.
C1_Witness ==
    /\ Count = MAX_CONCURRENT_STREAMS
    /\ last.op = "StartStream"
    /\ last.camera_url = "test://pattern"
    /\ last.camera_id \notin DOMAIN active_streams
    /\ last.rpc = "OK"
    /\ last.status = STATUS_ERROR

\* C2: a StartStream (passing validation) whose camera_id is present in the
\* registry returns OK with in-body status=error and leaves the registry
\* entry, the active count, total_streams_started and the running engine
\* unchanged; a StartStream is admitted only for an id that is not present.
C2_DuplicateSuppressed ==
    [][/\ (/\ Returns("StartStream")
           /\ ValidateStreamRequest(last'.camera_id, last'.camera_url) = "OK"
           /\ last'.camera_id \in DOMAIN active_streams)
          => (/\ last'.rpc = "OK"
              /\ last'.status = STATUS_ERROR
              /\ SessionsUnchanged
              /\ WorkerRunning(managers'[last'.camera_id]))
       /\ (Returns("StartStream") /\ last'.status = STATUS_SUCCESS)
          => (/\ last'.camera_id \notin DOMAIN active_streams
              /\ Count' = Count + 1)]_vars

\* C2 witness: a duplicate StartStream was refused and the session it named
\* is still in the registry with its worker running.
C2_Witness ==
    /\ last.op = "StartStream"
    /\ last.rpc = "OK"
    /\ last.status = STATUS_ERROR
    /\ last.camera_url = "test://pattern"
    /\ last.camera_id \in DOMAIN active_streams
    /\ active_streams[last.camera_id].status = STATUS_ACTIVE
    /\ WorkerRunning(managers[last.camera_id])
    /\ total_streams_started = 1

\* C3: StartStream with an empty camera_id, an empty camera_url or a URL
\* classified UNKNOWN, and StopStream with an empty camera_id, return
\* INVALID_ARGUMENT and change no state.
C3_InvalidRequestRejected ==
    [][(\/ /\ Returns("StartStream")
            /\ \/ last'.camera_id = ""
               \/ last'.camera_url = ""
               \/ DetectCameraType(last'.camera_url) = "UNKNOWN"
        \/ /\ Returns("StopStream")
            /\ last'.camera_id = "")
       => (/\ last'.rpc = "INVALID_ARGUMENT"
           /\ SessionsUnchanged
           /\ UNCHANGED <<streams_mutex, pc, req, terminated>>)]_vars

\* C3 witness: a StartStream with a URL classified UNKNOWN was rejected with
\* INVALID_ARGUMENT while a session is running.
C3_Witness ==
    /\ last.op = "StartStream"
    /\ last.camera_url = "not-a-url"
    /\ last.camera_id = "cam1"
    /\ last.rpc = "INVALID_ARGUMENT"
    /\ \E id \in DOMAIN active_streams : WorkerRunning(managers[id])

\* C4: a StartStream with a non-empty camera_id that is not in the registry,
\* a test-pattern URL and fewer than MAX_CONCURRENT_STREAMS active sessions
\* returns OK with status=success and stream_id = camera_id + "_" + epoch
\* milliseconds, raises the active count and total_streams_started by exactly
\* one, and the inserted entry has status 'active' and a running worker.
C4_StartAdmitted ==
    [][(/\ Returns("StartStream")
        /\ last'.camera_id # ""
        /\ last'.camera_id \notin DOMAIN active_streams
        /\ DetectCameraType(last'.camera_url) = "TEST_PATTERN"
        /\ Count < MAX_CONCURRENT_STREAMS)
       => (/\ last'.rpc = "OK"
           /\ last'.status = STATUS_SUCCESS
           /\ \E now \in Clock :
                 last'.stream_id = last'.camera_id \o "_" \o ToString(now)
           /\ Count' = Count + 1
           /\ total_streams_started' = total_streams_started + 1
           /\ DOMAIN active_streams' = DOMAIN active_streams \cup {last'.camera_id}
           /\ active_streams'[last'.camera_id].status = "active"
           /\ active_streams'[last'.camera_id].camera_url = last'.camera_url
           /\ managers'[last'.camera_id].is_capturing
           /\ WorkerRunning(managers'[last'.camera_id]))]_vars

\* C4 witness: the session that filled the last free slot was admitted.
C4_Witness ==
    /\ last.op = "StartStream"
    /\ last.status = STATUS_SUCCESS
    /\ last.stream_id = "cam10_2"
    /\ Count = MAX_CONCURRENT_STREAMS
    /\ active_streams["cam10"].status = "active"
    /\ WorkerRunning(managers["cam10"])

\* C5: StopStream with a non-empty id that is absent returns OK with
\* status=error and leaves the registry unchanged; for an id that is present
\* it returns status=success only after the session's capture worker has left
\* its loop, the entry is erased and the active count drops by one; a
\* GetStreamStatus for an absent id reports status=stopped.
C5_StopStream ==
    [][/\ (/\ Returns("StopStream")
           /\ last'.camera_id # ""
           /\ last'.camera_id \notin DOMAIN active_streams)
          => (/\ last'.rpc = "OK"
              /\ last'.status = STATUS_ERROR
              /\ SessionsUnchanged)
       /\ (/\ Returns("StopStream")
           /\ last'.camera_id \in DOMAIN active_streams)
          => (/\ last'.rpc = "OK"
              /\ last'.status = STATUS_SUCCESS
              /\ ~WorkerRunning(managers[last'.camera_id])
              /\ managers[last'.camera_id].should_stop
              /\ DOMAIN active_streams' = DOMAIN active_streams \ {last'.camera_id}
              /\ DOMAIN managers' = DOMAIN managers \ {last'.camera_id}
              /\ Count' = Count - 1
              /\ ~terminated')
       /\ (/\ Returns("GetStreamStatus")
           /\ last'.camera_id \notin DOMAIN active_streams)
          => (last'.rpc = "OK" /\ last'.status = STATUS_STOPPED)]_vars

\* C5 witness: after a successful StopStream of a camera, with another session
\* still running, GetStreamStatus for the stopped camera reported 'stopped'.
C5_Witness ==
    /\ last.op = "GetStreamStatus"
    /\ last.camera_id = "cam1"
    /\ last.status = STATUS_STOPPED
    /\ DOMAIN active_streams = {"cam2"}
    /\ DOMAIN managers = {"cam2"}
    /\ total_streams_started = 2

\* C6: Start, Stop, then Start of the same camera_id with a test-pattern
\* URL: the Start that follows a successful Stop of the id succeeds, and
\* leaves exactly one entry for that id, active and with a running worker,
\* whatever other sessions are active.
C6_StartStopStart ==
    [][(/\ last.op = "StopStream"
        /\ last.status = STATUS_SUCCESS
        /\ Returns("StartStream")
        /\ last'.camera_id = last.camera_id
        /\ DetectCameraType(last'.camera_url) = "TEST_PATTERN")
       => (/\ last'.rpc = "OK"
           /\ last'.status = STATUS_SUCCESS
           /\ Cardinality({k \in DOMAIN active_streams' :
                             active_streams'[k].camera_id = last'.camera_id}) = 1
           /\ active_streams'[last'.camera_id].status = "active"
           /\ WorkerRunning(managers'[last'.camera_id])
           /\ total_streams_started' >= 2)]_vars

\* C6 witness: the last completed call is a successful StopStream of a camera
\* and a new StartStream of the same camera has passed admission and started
\* its worker, while the other camera's session is active.
C6_Witness ==
    \E t \in Threads :
        /\ pc[t] = "start_spawned"
        /\ req[t].camera_id = "cam1"
        /\ req[t].camera_url = "test://pattern"
        /\ last.op = "StopStream"
        /\ last.camera_id = "cam1"
        /\ last.status = STATUS_SUCCESS
        /\ "cam2" \in DOMAIN active_streams

\* C7: when the capture engine fails to initialize during StartStream (an
\* http:// URL passes validation as HTTP_STREAM but has no backend), the RPC
\* returns OK with status=error; and whenever StartStream answers
\* status=error, nothing is inserted, total_streams_started is unchanged and
\* no worker thread is left behind.
C7_FailedStartLeavesNothing ==
    [][/\ (/\ Returns("StartStream")
           /\ last'.camera_id # ""
           /\ DetectCameraType(last'.camera_url) = "HTTP_STREAM")
          => (last'.rpc = "OK" /\ last'.status = STATUS_ERROR)
       /\ (Returns("StartStream") /\ last'.status = STATUS_ERROR)
          => (/\ last'.rpc = "OK"
              /\ SessionsUnchanged
              /\ DOMAIN managers' = DOMAIN active_streams'
              /\ ~terminated')]_vars

\* C7 witness: a StartStream with an http:// URL for a camera that is not in
\* the registry was answered status=error, below the limit.
C7_Witness ==
    /\ last.op = "StartStream"
    /\ last.camera_url = "http://host/mjpeg"
    /\ last.camera_id = "cam2"
    /\ last.rpc = "OK"
    /\ last.status = STATUS_ERROR
    /\ DOMAIN active_streams = {"cam1"}
    /\ DOMAIN managers = {"cam1"}

\* C8: GetStreamStatus with an empty camera_id is rejected with
\* INVALID_ARGUMENT.
C8_EmptyStatusIdRejected ==
    (last.op = "GetStreamStatus" /\ last.camera_id = "")
        => last.rpc = "INVALID_ARGUMENT"

\* C9: for an admitted session that is not stopped, GetStreamStatus reports
\* status=active, and once the session's worker has captured a frame the
\* reported frames_processed is greater than 0.
C9_FramesProcessedReported ==
    [][(/\ Returns("GetStreamStatus")
        /\ last'.camera_id \in DOMAIN active_streams
        /\ managers[last'.camera_id].stats.frames_captured > 0)
       => (/\ last'.status = STATUS_ACTIVE
           /\ last'.frames_processed > 0)]_vars

\* C10: GetHealth returns 'healthy' exactly when no registry entry has status
\* 'error' and fewer than 9 sessions are active, and 'degraded' otherwise;
\* active_streams in the response is the registry size.
C10_Health ==
    [][Returns("GetHealth")
       => (/\ last'.rpc = "OK"
           /\ last'.status \in {HEALTH_HEALTHY, HEALTH_DEGRADED}
           /\ last'.status = HEALTH_HEALTHY
                <=> (/\ \A id \in DOMAIN active_streams :
                           active_streams[id].status # "error"
                     /\ Count < 9)
           /\ last'.active_streams = Count)]_vars

\* C10 witness: GetHealth answered 'degraded' with 9 active sessions.
C10_Witness ==
    /\ last.op = "GetHealth"
    /\ last.status = HEALTH_DEGRADED
    /\ last.active_streams = 9
    /\ Count = 9

----------------------------------------------------------------------------
(* Properties of the capture engine used directly *)

\* the engine under test
Cam == managers[Engine]

\* a step in which the caller begins a call of op on the engine
Begins(op) ==
    /\ pc["main"] = "idle"
    /\ Engine \in DOMAIN managers
    /\ \/ Returns(op) /\ last'.thread = "main"
       \/ pc'["main"] # "idle" /\ req'["main"].op = op

\* the config of the Initialize call begun in this step
BegunConfig ==
    IF pc'["main"] # "idle" THEN req'["main"].config ELSE last'.config

\* width, height or fps is not positive, or width x height is more than the
\* signed 32-bit maximum (the quotient is taken by the width, so that the
\* product itself is never formed)
InvalidConfig(c) ==
    \/ c.width <= 0
    \/ c.height <= 0
    \/ c.fps <= 0
    \/ c.height > 2147483647 \div c.width

\* C11: Initialize(config) on an UNINITIALIZED engine is rejected (returns
\* false, state ERROR, last error recorded) exactly when width, height or fps
\* is not positive or width x height exceeds the signed 32-bit maximum;
\* otherwise the state goes UNINITIALIZED -> INITIALIZING and then to READY
\* with result true when the backend initializes (always for TEST_PATTERN),
\* or to ERROR with result false when the backend fails or the camera type
\* is unsupported.
C11_Initialize ==
    [][/\ (Begins("Initialize") /\ Cam.state = "UNINITIALIZED")
          => IF InvalidConfig(BegunConfig)
             THEN /\ Returns("Initialize")
                  /\ last'.result = "false"
                  /\ Cam'.state = "ERROR"
                  /\ Cam'.last_error = "Invalid configuration parameters"
             ELSE /\ pc'["main"] = "init_backend"
                  /\ Cam'.state = "INITIALIZING"
                  /\ Cam'.config = BegunConfig
                  /\ UNCHANGED last
       /\ (pc["main"] = "init_backend" /\ pc'["main"] # "init_backend")
          => /\ Returns("Initialize")
             /\ Cam.state = "INITIALIZING"
             /\ last'.result \in {"true", "false"}
             /\ last'.result = "true"
                  => (/\ Cam'.state = "READY"
                      /\ Cam.camera_type \in {"TEST_PATTERN", "FILE_VIDEO",
                                              "WEBCAM", "RTSP_STREAM"})
             /\ last'.result = "false"
                  => (Cam'.state = "ERROR" /\ Cam'.last_error # "")
             /\ Cam.camera_type = "TEST_PATTERN" => last'.result = "true"
             /\ Cam.camera_type \in {"HTTP_STREAM", "UNKNOWN"}
                  => (/\ last'.result = "false"
                      /\ Cam'.last_error = "Unsupported camera type")]_vars

\* C11 witness: Initialize with a 46341 x 46341 config (one whose product is
\* past the 32-bit maximum) was rejected on a fresh test-pattern engine.
C11_Witness ==
    /\ Engine \in DOMAIN managers
    /\ last.op = "Initialize"
    /\ last.result = "false"
    /\ last.config.width = 46341
    /\ Cam.camera_type = "TEST_PATTERN"
    /\ Cam.state = "ERROR"
    /\ Cam.last_error = "Invalid configuration parameters"
    /\ Cam.config = CameraConfig
    /\ Cam.capture_thread = "null"
    /\ ~Cam.should_stop

\* C12: Initialize called, with any config, on an engine whose state is
\* READY, CAPTURING or ERROR returns false within the call's own steps and
\* leaves the engine's state, config and worker as they were.
C12_InitializeTwiceFails ==
    [][(Begins("Initialize") /\ Cam.state \in {"READY", "CAPTURING", "ERROR"})
       => (/\ Returns("Initialize")
           /\ last'.result = "false"
           /\ Cam'.state = Cam.state
           /\ Cam'.config = Cam.config
           /\ Cam'.capture_thread = Cam.capture_thread
           /\ Cam'.is_capturing = Cam.is_capturing)]_vars

\* C13: StartCapture called on an engine that is capturing (after a
\* successful StartCapture) returns true, spawns no second worker and leaves
\* the state CAPTURING.
C13_StartCaptureIdempotent ==
    [][(Begins("StartCapture") /\ Cam.is_capturing /\ Cam.state = "CAPTURING")
       => (/\ Returns("StartCapture")
           /\ last'.result = "true"
           /\ Cam'.capture_thread = Cam.capture_thread
           /\ Cam'.state = "CAPTURING")]_vars

\* C14: StartCapture on an engine that is UNINITIALIZED or in ERROR and is not
\* capturing returns false within the call's own steps, records 'Camera not
\* ready for capture' as last error, spawns no worker and leaves the state
\* unchanged.
C14_StartCaptureNotReady ==
    [][(/\ Begins("StartCapture")
        /\ Cam.state \in {"UNINITIALIZED", "ERROR"}
        /\ ~Cam.is_capturing)
       => (/\ Returns("StartCapture")
           /\ last'.result = "false"
           /\ Cam'.last_error = "Camera not ready for capture"
           /\ Cam'.capture_thread = Cam.capture_thread
           /\ Cam'.state = Cam.state)]_vars

\* C15: StopCapture called from a thread that is not the worker, while the
\* engine is capturing, returns true once the worker is scheduled (also when
\* the worker is pacing or inside the reconnect back-off); when it returns,
\* the stop flag is set, the worker has left CaptureLoop and has been joined,
\* is_capturing is false, and a state that was CAPTURING has become READY.
C15_StopCaptureReturns ==
    /\ (pc["main"] = "stop_join")
         ~> (/\ pc["main"] = "idle"
             /\ last.op = "StopCapture"
             /\ last.thread = "main"
             /\ last.result = "true")
    /\ [][(pc["main"] = "stop_join" /\ pc'["main"] # "stop_join")
          => (/\ Returns("StopCapture")
              /\ last'.result = "true"
              /\ Cam.should_stop
              /\ Cam.capture_thread = "exited"
              /\ Cam'.capture_thread = "null"
              /\ ~Cam'.is_capturing
              /\ Cam.state = "CAPTURING" => Cam'.state = "READY"
              /\ Cam'.state # "CAPTURING")]_vars

\* C15 witness: StopCapture returned true on an engine whose worker had gone
\* through a reconnect; the worker is joined and the state is READY.
C15_Witness ==
    /\ Engine \in DOMAIN managers
    /\ last.op = "StopCapture"
    /\ last.thread = "main"
    /\ last.result = "true"
    /\ Cam.should_stop
    /\ Cam.stats.reconnect_count = 1
    /\ Cam.capture_thread = "null"
    /\ ~Cam.is_capturing
    /\ Cam.state = "READY"

\* C16: StopCapture is idempotent: a caller's StopCapture always returns
\* true; called right after a StopCapture that returned, or on an engine
\* that is not capturing (one that never captured included), it returns at
\* once and changes neither the state nor any flag.
C16_StopCaptureIdempotent ==
    [][/\ (Returns("StopCapture") /\ last'.thread = "main")
          => last'.result = "true"
       /\ (/\ Begins("StopCapture")
           /\ \/ last.op = "StopCapture" /\ last.thread = "main"
              \/ ~Cam.is_capturing)
          => (/\ Returns("StopCapture")
              /\ last'.result = "true"
              /\ UNCHANGED <<managers, pc, req, terminated>>)]_vars

\* C16 witness: StopCapture returned true on a READY engine that never
\* captured (its stop flag was never set and it has no worker).
C16_Witness ==
    /\ Engine \in DOMAIN managers
    /\ last.op = "StopCapture"
    /\ last.thread = "main"
    /\ last.result = "true"
    /\ Cam.state = "READY"
    /\ ~Cam.should_stop
    /\ ~Cam.is_capturing
    /\ Cam.capture_thread = "null"
    /\ Cam.stats.frames_captured = 0

\* C17: StopCapture called on the capture worker thread itself (from the
\* frame callback) returns false.
C17_SelfStopRejected ==
    (last.op = "StopCapture" /\ last.thread = "worker") => last.result = "false"

\* C18: after Cleanup has returned, the state is UNINITIALIZED, the frame
\* callback is cleared and the engine holds no worker thread, running or
\* unjoined; and no std::thread is ever destroyed while joinable.
C18_CleanupLeavesNoWorker ==
    /\ (/\ last.op = "Cleanup"
        /\ pc["main"] = "idle"
        /\ Engine \in DOMAIN managers)
       => (/\ Cam.state = "UNINITIALIZED"
           /\ ~Cam.frame_callback
           /\ Cam.capture_thread = "null")
    /\ ~terminated

\* C19: the engine state enters CAPTURING only from READY or from
\* RECONNECTING, never from UNINITIALIZED, ERROR or DISCONNECTED.
C19_CapturingEnteredFromReady ==
    [][(/\ Engine \in DOMAIN managers
        /\ Engine \in DOMAIN managers'
        /\ Cam.state # "CAPTURING"
        /\ Cam'.state = "CAPTURING")
       => Cam.state \in {"READY", "RECONNECTING"}]_vars

\* C20: with auto_reconnect set and a source that never delivers a frame,
\* once the worker has made max_reconnect_attempts reconnect attempts and
\* left the back-off, the state is ERROR.
C20_ReconnectsExhausted ==
    (/\ Engine \in DOMAIN managers
     /\ Cam.camera_url \in DeadSources
     /\ Cam.config.auto_reconnect
     /\ Cam.capture_thread = "loop"
     /\ Cam.stats.reconnect_count >= Cam.config.max_reconnect_attempts)
    => Cam.state = "ERROR"

C22_CallbackExceptionSwallowed ==
    [][(Returns("FrameCallback") /\ last'.result = "threw")
       => /\ ~terminated'
          /\ Engine \in DOMAIN managers'
          /\ managers'[Engine].capture_thread = "loop"
          /\ managers'[Engine].should_stop = Cam.should_stop
          /\ managers'[Engine].is_capturing = Cam.is_capturing
          /\ managers'[Engine].state = Cam.state
          /\ managers'[Engine].last_error = Cam.last_error
          /\ managers'[Engine].stats.frames_captured = Cam.stats.frames_captured + 1
          /\ managers'[Engine].stats.bytes_received
                = Cam.stats.bytes_received + FrameBytes(Cam)]_vars

\* a callback has just thrown on a CAPTURING engine
C22_Witness ==
    /\ last.op = "FrameCallback"
    /\ last.result = "threw"
    /\ Engine \in DOMAIN managers
    /\ Cam.state = "CAPTURING"
    /\ Cam.is_capturing
    /\ Cam.capture_thread = "loop"
    /\ Cam.stats.frames_captured = 1

\* C23: for every ProcessFrame call and any registered detectors, the
\* returned result holds at most max_detections_per_frame detections, and
\* that limit is never below 1, whatever SetMaxDetectionsPerFrame is given.
C23_DetectionsCapped ==
    /\ processor.max_detections_per_frame >= 1
    /\ last.op = "ProcessFrame"
         => Len(last.result.detections) <= processor.max_detections_per_frame

\* a ProcessFrame whose detectors found more than the limit returned exactly
\* the limit, set by SetMaxDetectionsPerFrame
C23_Witness ==
    /\ last.op = "ProcessFrame"
    /\ last.result.success
    /\ Len(processor.detectors) >= 2
    /\ processor.max_detections_per_frame = 2
    /\ Len(last.result.detections) = 2
    /\ last.result.detections[1] # last.result.detections[2]

\* url begins with p / ends with e, said without an index computation
HasPrefix(url, p) == \E n \in 0..Len(url) : SubSeq(url, 1, n) = p
HasSuffix(url, e) == \E n \in 1..(Len(url) + 1) : SubSeq(url, n, Len(url)) = e

\* rule k of the classification order applies to url
RuleApplies(k, url) ==
    CASE k = 1 -> Len(url) = 0
      [] k = 2 -> HasPrefix(url, "test://")
      [] k = 3 -> HasPrefix(url, "rtsp://") \/ HasPrefix(url, "rtmp://")
                    \/ HasPrefix(url, "rtp://")
      [] k = 4 -> HasPrefix(url, "http://") \/ HasPrefix(url, "https://")
      [] k = 5 -> HasPrefix(url, "/dev/video") \/ HasPrefix(url, "/dev/v4l/by-id/")
      [] k = 6 -> \E e \in {".mp4", ".avi", ".mov", ".mkv", ".wmv", ".flv", ".webm"} :
                     HasSuffix(url, e)
      [] k = 7 -> url \in ExistingFiles
      [] OTHER -> TRUE

\* the type rule k gives
RuleType(k) ==
    CASE k = 2 -> "TEST_PATTERN"
      [] k = 3 -> "RTSP_STREAM"
      [] k = 4 -> "HTTP_STREAM"
      [] k = 5 -> "WEBCAM"
      [] k \in {6, 7} -> "FILE_VIDEO"
      [] OTHER -> "UNKNOWN"

\* the first rule that applies to url
FirstRule(url) ==
    CHOOSE k \in 1..8 : RuleApplies(k, url) /\ \A j \in 1..(k - 1) : ~RuleApplies(j, url)

\* C24: DetectCameraType(url) returns the type of the first matching rule in
\* the order empty -> UNKNOWN, test:// -> TEST_PATTERN, rtsp/rtmp/rtp prefix
\* -> RTSP_STREAM, http/https prefix -> HTTP_STREAM, /dev/video or
\* /dev/v4l/by-id/ prefix -> WEBCAM, video extension suffix -> FILE_VIDEO,
\* existing file -> FILE_VIDEO, otherwise UNKNOWN; the result depends on the
\* url (and the existence of the path) alone, whatever was classified before.
C24_FirstMatchWins ==
    last.op = "DetectCameraType" => last.result = RuleType(FirstRule(last.url))

\* a URL that matches two rules (an rtsp:// prefix and a video extension) was
\* classified right after a URL of another type
C24_Witness ==
    /\ last.op = "DetectCameraType"
    /\ last.url = "rtsp://h/a.mp4"
    /\ last.result = "RTSP_STREAM"
    /\ last.prev = "movie.mp4"

\* the responses written on stream t echo, in order, the camera_id and the
\* timestamp of the first requests read on it
EchoesInOrder(t) ==
    /\ Len(frame_stream[t].responses) <= Len(frame_stream[t].requests)
    /\ \A i \in 1..Len(frame_stream[t].responses) :
          /\ frame_stream[t].responses[i].camera_id = frame_stream[t].requests[i].camera_id
          /\ frame_stream[t].responses[i].timestamp = frame_stream[t].requests[i].timestamp

\* the number of responses written on the streams of the threads in S
RECURSIVE ResponsesWritten(_)
ResponsesWritten(S) ==
    IF S = {} THEN 0
    ELSE LET t == CHOOSE x \in S : TRUE
         IN Len(frame_stream[t].responses) + ResponsesWritten(S \ {t})

\* C25 (as stated): ProcessFrames answers every FrameRequest it has read with
\* exactly one FrameResponse carrying the same camera_id and timestamp, in
\* request order.
C25_EveryRequestAnswered ==
    \A t \in Threads :
        /\ EchoesInOrder(t)
        /\ Len(frame_stream[t].responses) = Len(frame_stream[t].requests)

\* C25 (amended): ProcessFrames answers each FrameRequest it reads with one
\* FrameResponse carrying the same camera_id and timestamp, in request order,
\* up to the first Write that fails: that request stays unanswered and
\* uncounted and the handler returns OK at once.  The global frames-processed
\* counter is the number of responses written, the session registry is never
\* touched, and the handler also returns OK when the inbound stream closes.
C25_FramesAnswered ==
    /\ [](\A t \in Threads :
            /\ EchoesInOrder(t)
            /\ Len(frame_stream[t].requests) - Len(frame_stream[t].responses)
                 = (IF frame_stream[t].cause = "write failed" THEN 1 ELSE 0)
            /\ frame_stream[t].state = "ended" => frame_stream[t].rpc = "OK")
    /\ [](total_frames_processed = ResponsesWritten(Threads))
    /\ [][UNCHANGED <<active_streams, managers, total_streams_started>>]_vars

\* one stream was closed by its client after two answered requests, the other
\* ended at a failed Write after one answered request
C25_Witness ==
    /\ frame_stream["t1"].cause = "closed"
    /\ Len(frame_stream["t1"].responses) = 2
    /\ frame_stream["t1"].requests[1] # frame_stream["t1"].requests[2]
    /\ frame_stream["t2"].cause = "write failed"
    /\ Len(frame_stream["t2"].requests) = 2
    /\ Len(frame_stream["t2"].responses) = 1
    /\ total_frames_processed = 3
    /\ DOMAIN active_streams = FrameSessions

\* C26: for any interleaving of concurrent StartCapture calls on the same
\* READY engine at most one capture worker is spawned: no StartCapture call
\* constructs a worker thread while a worker of the engine is running.
C26_OneWorkerSpawned ==
    [][\A t \in RaceCallers :
          (pc[t] = "idle" /\ pc'[t] = "start_spawned") => ~WorkerRunning(Cam)]_vars

\* a step of the engine's capture worker (no caller takes part in it)
WorkerStep ==
    /\ pc' = pc
    /\ last' = last \/ last'.thread = "worker"
    /\ Engine \in DOMAIN managers
    /\ Engine \in DOMAIN managers'
    /\ managers'[Engine] # Cam

\* C27: whenever the capture worker moves the engine to ERROR, it leaves the
\* capture loop and clears is_capturing (so that it captures and dispatches
\* no further frame).
C27_ErrorEndsWorker ==
    [][(WorkerStep /\ Cam.state # "ERROR" /\ managers'[Engine].state = "ERROR")
       => /\ managers'[Engine].capture_thread = "exited"
          /\ ~managers'[Engine].is_capturing]_vars

\* C28: RECONNECTING is entered from DISCONNECTED only, never directly from
\* CAPTURING, and the worker captures no frame into an engine that it leaves
\* in DISCONNECTED.
C28_ReconnectThroughDisconnected ==
    [][(Engine \in DOMAIN managers /\ Engine \in DOMAIN managers')
       => /\ (Cam.state # "RECONNECTING" /\ managers'[Engine].state = "RECONNECTING")
               => Cam.state = "DISCONNECTED"
          /\ managers'[Engine].stats.frames_captured > Cam.stats.frames_captured
               => managers'[Engine].state # "DISCONNECTED"]_vars

\* C29: a frame that is non-empty but fails validation is treated as a
\* capture failure: wherever the worker is about to read from a decoder
\* backend, an invalid frame takes the engine where an empty frame takes it
\* (into the reconnect procedure, or to ERROR and out of the loop).
C29_InvalidFrameIsFailure ==
    (/\ Engine \in DOMAIN managers
     /\ ~terminated
     /\ Cam.capture_thread = "loop"
     /\ ~Cam.should_stop
     /\ {"invalid", "empty"} \subseteq BackendReads(Cam))
    => CaptureLoopBody(Cam, "invalid") = CaptureLoopBody(Cam, "empty")

\* the frame read as `got` by engine cm passes ValidateFrame (the test
\* pattern generator's frames always do)
PassedValidation(cm, got) ==
    \/ cm.camera_type = "TEST_PATTERN"
    \/ cm.camera_type \in {"FILE_VIDEO", "WEBCAM", "RTSP_STREAM"} /\ got = "frame"

\* C30: over any sequence of engine operations (StopCapture, Cleanup and
\* re-Initialize included) frames_captured, bytes_received and
\* reconnect_count never decrease; frames_captured and bytes_received change
\* only in a step of the worker's loop on a frame that passed validation, by
\* exactly 1 and by the frame's byte length, and are already counted when the
\* frame's callback has run; a read that yields no validated frame leaves
\* both as they are.
C30_StatsMonotonic ==
    /\ [][(Engine \in DOMAIN managers /\ Engine \in DOMAIN managers')
          => LET a == Cam.stats
                 b == managers'[Engine].stats
             IN /\ b.frames_captured >= a.frames_captured
                /\ b.bytes_received >= a.bytes_received
                /\ b.reconnect_count >= a.reconnect_count
                /\ (b.frames_captured # a.frames_captured
                      \/ b.bytes_received # a.bytes_received)
                     => /\ WorkerStep
                        /\ Cam.capture_thread = "loop"
                        /\ \E got \in BackendReads(Cam) : PassedValidation(Cam, got)
                        /\ b.frames_captured = a.frames_captured + 1
                        /\ b.bytes_received = a.bytes_received + FrameBytes(Cam)
                /\ (last' # last /\ last'.thread = "worker")
                     => b.frames_captured = a.frames_captured + 1]_vars
    /\ [](Engine \in DOMAIN managers /\ Cam.capture_thread = "loop"
          => \A got \in BackendReads(Cam) :
                ~PassedValidation(Cam, got)
                  => CaptureLoopBody(Cam, got).stats.frames_captured
                         = Cam.stats.frames_captured
                     /\ CaptureLoopBody(Cam, got).stats.bytes_received
                         = Cam.stats.bytes_received)

\* an engine that captured a frame and reconnected, then went through
\* Cleanup and another Initialize, still shows both in its stats
C30_Witness ==
    /\ Engine \in DOMAIN managers
    /\ last.op = "Initialize"
    /\ last.result = "true"
    /\ Cam.state = "READY"
    /\ Cam.stats.frames_captured = 1
    /\ Cam.stats.bytes_received = FrameBytes(Cam)
    /\ Cam.stats.reconnect_count = 1

\* a thread is inside SetFrameCallback or ClearFrameCallback
InsideCallbackSetter(t) == pc[t] \in {"set_callback", "clear_callback"}

\* C31: callback invocations of one engine never overlap a SetFrameCallback or
\* a ClearFrameCallback (nor one another: at most one is in progress, on the
\* capture thread); frames are delivered in capture order, each to the
\* callback installed when it is dispatched; frame_callback_ changes only
\* between invocations; and after ClearFrameCallback has returned no
\* invocation begins until a callback is installed again.
C31_CallbackInvocationsSerialized ==
    [][ /\ (callback_slot.invoking # "none"
              => \A t \in Threads : ~InsideCallbackSetter(t))
        /\ \A i \in 1..Len(callback_slot.delivered) - 1 :
              callback_slot.delivered[i].frame < callback_slot.delivered[i + 1].frame
        /\ (callback_slot.invoking = "none" /\ callback_slot'.invoking # "none"
              => /\ callback_slot.frame_callback # "null"
                 /\ callback_slot'.invoking = callback_slot.frame_callback
                 /\ callback_slot'.delivered
                        = Append(callback_slot.delivered,
                                 [frame    |-> callback_slot.captured,
                                  callback |-> callback_slot.frame_callback]))
        /\ (callback_slot'.frame_callback # callback_slot.frame_callback
              => callback_slot.invoking = "none" /\ callback_slot'.invoking = "none")
        /\ (last'.op = "ClearFrameCallback" /\ callback_slot' # callback_slot
              => callback_slot'.frame_callback = "null")
      ]_vars

\* f was replaced by g between two deliveries, and a frame captured after a
\* ClearFrameCallback found no callback
C31_Witness ==
    /\ Len(callback_slot.delivered) = 2
    /\ callback_slot.delivered[1].callback = "f"
    /\ callback_slot.delivered[2].callback = "g"
    /\ callback_slot.captured = 3
    /\ callback_slot.worker = "capture"
    /\ callback_slot.frame_callback = "null"
    /\ last.op = "ClearFrameCallback"

\* C32 (as stated): once the detections gathered for a frame have reached
\* max_detections_per_frame, no later detector's Detect is called for it.
C32_StopsAtCap ==
    (last.op = "ProcessFrame" /\ last.result.success)
        => \A i \in 1..Len(processor.detectors) :
              Len(ApplyDetectors(SubSeq(processor.detectors, 1, i - 1), last.found,
                                 1, <<>>, processor.max_detections_per_frame))
                    >= processor.max_detections_per_frame
                => i \notin last.invoked

C34_DetectorListMaintained ==
    [][ /\ (last'.op = "AddDetector" /\ <<processor, last>>' # <<processor, last>>)
            => processor'.detectors
                    = IF last'.ok THEN Append(processor.detectors, last'.name)
                      ELSE processor.detectors
        /\ (last'.op = "RemoveDetector" /\ <<processor, last>>' # <<processor, last>>)
            => processor'.detectors
                    = SelectSeq(processor.detectors, LAMBDA d : d # last'.name)
      ]_vars

\* RemoveDetector("Custom") has returned and a detector of another name is left
C34_Witness ==
    /\ last.op = "RemoveDetector"
    /\ last.name = "Custom"
    /\ processor.detectors = <<"Other">>

\* C35 (as stated): an initialized reference motion detector reports nothing on
\* its first call after initialization, at most one detection on any call,
\* exactly one whenever the frame's data size differs from the previous
\* frame's; its counter n grows only with a reported detection, whose box is
\* x = 100 + (n mod 400), y = 100 + ((n / 10) mod 200), width = 80 + (n mod 40),
\* height = 60 + (n mod 30) for n before the increment.
C35_MotionDetectorContract ==
    [][(last'.op = "Detect" /\ detector.initialized /\ <<detector, last>>' # <<detector, last>>)
        => LET result == last'.result
               n == detector.detection_counter
           IN /\ Len(result) <= 1
              /\ detector.calls = 0 => result = <<>>
              /\ (detector.calls > 0 /\ last'.size # detector.last_size)
                    => Len(result) = 1
              /\ detector'.detection_counter = n + Len(result)
              /\ Len(result) = 1
                    => /\ result[1].x = 100 + (n % 400)
                       /\ result[1].y = 100 + ((n \div 10) % 200)
                       /\ result[1].width = 80 + (n % 40)
                       /\ result[1].height = 60 + (n % 30)
      ]_vars

\* C36 (as stated): each test-pattern session has its own rotation: its k-th
\* captured frame shows color bars, checkerboard, moving box, noise, timecode
\* in that order, each for exactly 5 * fps of its own frames, whatever another
\* session running at the same time captures.
C36_OwnPatternRotation ==
    \A id \in PatternSessions :
        LET s == generator.sessions[id] IN
        \A k \in 1..Len(s.shown) :
            s.shown[k] = PatternOf((k - 1) \div (5 * s.fps))

\* C37: whenever an entry leaves the registry (StopStream, or the service's
\* destructor), its worker has been asked to stop, has left its loop and has
\* been joined, so that no unjoined thread is destroyed with the engine; an
\* engine without a registry entry is one that a StartStream is still setting
\* up; and after the destructor the registry is empty and no engine is left.
C37_WorkerJoinedBeforeDestruction ==
    /\ [][\A id \in DOMAIN active_streams :
            id \notin DOMAIN active_streams'
              => /\ managers[id].should_stop
                 /\ managers[id].capture_thread = "exited"
                 /\ id \notin DOMAIN managers'
                 /\ ~terminated'
         ]_vars
    /\ [](\A id \in DOMAIN managers \ DOMAIN active_streams :
            \E t \in Threads : pc[t] = "start_spawned" /\ req[t].camera_id = id)
    /\ [](\A t \in Threads :
            pc[t] = "destroyed" => DOMAIN active_streams = {} /\ DOMAIN managers = {})

\* the destructor has stopped and joined the worker of cam1 and is about to
\* destroy its StreamState, while cam2 is still registered with a running worker
C37_Witness ==
    /\ \E t \in Threads : pc[t] = "destroy" /\ req[t] = Destroying("cam1")
    /\ managers["cam1"].capture_thread = "exited"
    /\ "cam2" \in DOMAIN active_streams
    /\ WorkerRunning(managers["cam2"])

\* C38: registry operations never deadlock: a handler that holds the registry
\* lock always releases it (a StopStream waiting for the join of a worker
\* included, whatever the worker is doing: it never waits for the lock), so a
\* StartStream, StopStream, GetStreamStatus or GetHealth waiting for the lock
\* finds it free again; a StopStream that has begun its join completes.
C38_RegistryLockReleased ==
    \A t \in Threads :
        /\ (streams_mutex = t) ~> (streams_mutex = "free")
        /\ (pc[t] = "stop_join") ~> (pc[t] = "idle" /\ last.op = "StopStream")

\* a StopStream holds the registry lock and waits for the join of a worker
\* that is inside its reconnect back-off
C38_Witness ==
    \E t \in Threads :
        /\ pc[t] = "stop_join"
        /\ streams_mutex = t
        /\ managers[req[t].camera_id].capture_thread = "backoff"
        /\ managers[req[t].camera_id].should_stop

\* C39: whenever the registry lock is free, every entry of the registry has
\* status 'active', whatever the state of its engine: 'starting' never gets
\* into the registry, 'stopping' only exists while StopStream holds the lock,
\* and nothing ever sets 'error'.
C39_VisibleEntriesActive ==
    streams_mutex = "free"
        => \A id \in DOMAIN active_streams :
              active_streams[id].status = STATUS_ACTIVE

\* with the lock free, an entry is 'active' while its engine has lost its
\* source and is RECONNECTING, its worker in the back-off sleep
C39_Witness ==
    /\ streams_mutex = "free"
    /\ "cam1" \in DOMAIN active_streams
    /\ active_streams["cam1"].status = STATUS_ACTIVE
    /\ managers["cam1"].state = "RECONNECTING"
    /\ managers["cam1"].capture_thread = "backoff"

\* C40 (as stated): once StartCapture has returned, is_capturing (or state
\* CAPTURING) implies that the worker is still inside its capture loop, also
\* when the worker failed and left the loop right after it was started.
C40_CapturingMeansWorkerRuns ==
    (/\ Engine \in DOMAIN managers
     /\ pc["main"] = "idle"
     /\ Cam.is_capturing \/ Cam.state = "CAPTURING")
        => WorkerRunning(Cam)

====
